---------------------------- MODULE Spec2Model ----------------------------
(***************************************************************************)
(* KindleNotion: the content script's candidate planner                    *)
(* (extractAllBooksAuto, extractAllBooksAutoWithProgress), the background  *)
(* worker's merge into Notion (syncBooksToNotion) and the Notion client's  *)
(* batch committer (addHighlightBlocks).                                   *)
(*                                                                         *)
(* Strings are sequences of UTF-16 code units (naturals), so substring,    *)
(* includes and the replace of bookKey are computed, not assumed.          *)
(***************************************************************************)
EXTENDS Integers, Sequences, FiniteSets, TLC

VARIABLES
    \* ---- content script (src/unnamed/part_000) ----
    view,                 \* the list view: one [title, count] per .kp-notebook-library-each-book
    bookHighlightCounts,  \* chrome.storage.local 'bookHighlightCounts'
    testMode,             \* chrome.storage.sync 'testMode'
    cachedTestBookLimit,  \* module-level cache of getTestBookLimit
    pc,                   \* position of the running extraction
    entry,                \* which entry point runs: "auto" | "progress" | "none"
    notionCounts,         \* request.notionCounts
    useNotionCounts, savedCounts, isFirstSync, testBookLimit,
    booksToProcess,       \* the candidate queue
    newCounts,            \* counts observed in the list view during planning
    processedBooks,       \* candidates the second pass has gone through
    script,               \* the content script in use: "part_000" | "content.js"
    currentBook,          \* what extractCurrentBook finds on a page without a list
    allBooks,             \* the list the extraction returns
    pcBook,               \* position inside the second pass's loop body
    trace,                \* what the loop body has done for the current candidate
    \* ---- background worker and Notion (src/background.js, src/lib/notion-api.js) ----
    dbProperties,         \* names of the database's count properties
    pages,                \* the database's pages, in query order
    books,                \* request.books of the syncToNotion message
    pcSync,               \* position inside syncBooksToNotion / addHighlightBlocks
    bookIdx,              \* loop variable i of syncBooksToNotion (1-based here)
    page,                 \* index into pages of the found or created page, 0 = null
    existingHighlights, newHighlightsList,
    children, batchI, callSite, inFlight,
    newBooks, newHighlights, updatedBooks,
    outcome,              \* what happened to the book just handled
    netLog,               \* append requests, their responses and the delays, in order
    runNo, failures,
    pagesCreated, blocksAppended, runFailed, prevClean,
    begun,                \* the books the loop of this run has started on, in order
    behind,               \* whether Notion held fewer highlights of the current book than the book has
    \* ---- one waitForTitleUpdate call and the detail panel it watches ----
    expectedTitle,        \* the argument expectedTitle
    panelTitle,           \* what readRightPanelTitle finds ('' when no title element has text)
    panelContents,        \* the texts of the highlight elements of the detail panel
    selected,             \* isBookSelected(container)
    initialSignature,     \* the signature taken before waiting
    wpc,                  \* "idle" | "pending" | "resolved" ("off": no call modelled)
    done,                 \* the flag of finish
    result,               \* what the call resolved with: "none" | "true" | "false"
    observerOn, intervalOn, timerOn,
    mutationPending,      \* a mutation record waits for the observer callback
    intervalDue,          \* the interval's next callback is due
    now,                  \* milliseconds since the timers were set
    resolutions,          \* the values resolve was called with, in order
    changes,              \* changes of the page since the clock last moved
    expectedVariants,     \* the Set expectedVariants of the call
    \* ---- the two string normalizations applied to one title ----
    arg,                  \* the title the function is first applied to
    fn,                   \* the function applied: "normalizeTitle" | "bookKey" | "none"
    calls,                \* how often it has been applied
    once, twice,          \* its result on arg, and its result on that result
    \* ---- the sync window (src/sync-window.js) and what it talks to ----
    notionConfigured,     \* chrome.storage.sync holds notionToken and databaseId
    isSyncing,            \* the flag isSyncing
    kindleTabId,          \* the variable kindleTabId (NoTab = null)
    step,                 \* where startSync stands
    finishLeft,           \* finishSync calls the taken path still makes
    logList,              \* the types of the entries of #logList, newest first
    tabOpen,              \* the Kindle tab exists
    starts,               \* calls of startSync so far
    reads,                \* database queries getNotionHighlightCounts has issued
    windowCounts,         \* the variable notionCounts of startSync
    progress,             \* the syncProgress messages sent by the content script and the worker
    \* ---- runtime messages on their way to the sync window ----
    toWorker,             \* messages not yet handled by the worker's listener
    toWindow,             \* messages not yet handled by the window's listener
    sentLogs,             \* the syncLog messages sent so far
    \* ---- the startSync calls of one sync window, side by side ----
    syncRuns,             \* one record per call of startSync: where it stands
    openTabs,             \* the Kindle tabs that exist
    syncBtnDisabled,      \* syncBtn.disabled
    \* ---- one paginated read of the Notion client (src/lib/notion-api.js) ----
    listFn,               \* "getExistingHighlights" | "getAllBooksWithHighlightCount" | "none"
    pcList,               \* "idle" | "request" | "returned" | "thrown" ("off": no read modelled)
    cursor,               \* cursor / startCursor: where the next request starts (0 = undefined)
    hasMore,              \* the variable hasMore of getAllBooksWithHighlightCount
    highlights,           \* the array highlights of getExistingHighlights
    titleCounts,          \* the object books of getAllBooksWithHighlightCount
    visited,              \* the start positions of the requests made, in order
    pageSize              \* how many results Notion puts into one response

extractVars == <<script, currentBook, allBooks, pcBook, trace>>

planVars == <<view, bookHighlightCounts, testMode, cachedTestBookLimit, pc, entry,
              notionCounts, useNotionCounts, savedCounts, isFirstSync, testBookLimit,
              booksToProcess, newCounts, processedBooks, extractVars>>

syncVars == <<dbProperties, pages, books, pcSync, bookIdx, page, existingHighlights,
              newHighlightsList, children, batchI, callSite, inFlight, newBooks,
              newHighlights, updatedBooks, outcome, netLog, runNo, failures,
              pagesCreated, blocksAppended, runFailed, prevClean, begun, behind>>

waitVars == <<expectedTitle, panelTitle, panelContents, selected, initialSignature, wpc,
              done, result, observerOn, intervalOn, timerOn, mutationPending, intervalDue,
              now, resolutions, changes, expectedVariants>>

idemVars == <<arg, fn, calls, once, twice>>

windowVars == <<notionConfigured, isSyncing, kindleTabId, step, finishLeft, logList,
                tabOpen, starts, reads, windowCounts>>

msgVars == <<toWorker, toWindow, sentLogs>>

raceVars == <<syncRuns, openTabs, syncBtnDisabled>>

listVars == <<listFn, pcList, cursor, hasMore, highlights, titleCounts, visited, pageSize>>

\* what neither the content script nor the worker writes
restVars == <<idemVars, windowVars, msgVars, raceVars, listVars>>

\* the state of the parts specified further below
moreVars == <<progress, restVars>>

vars == <<planVars, syncVars, waitVars, moreVars>>

----------------------------------------------------------------------------
(* Bounds of the model *)

\* longest list view of the planner specification
MaxBooks == 3
\* longest list view of the limited-mode specification (exceeds the cap of 5)
MaxLimitedBooks == 6
\* longest highlight list of a book sent to syncBooksToNotion
MaxHighlights == 2
\* syncToNotion messages handled in one behaviour
MaxRuns == 2
\* remote operations that fail in one behaviour
MaxFailures == 1
\* most highlights handed to one addHighlightBlocks call
MaxBatchInput == 250
\* changes of the page within one interval of the poll
MaxChangesPerTick == 2
\* longest list view of the second-pass specification
MaxExtractBooks == 2
\* most highlights one extraction finds
MaxExtracted == 1

----------------------------------------------------------------------------
(* Strings *)

Min(a, b) == IF a < b THEN a ELSE b

\* String.prototype.substring(0, n)
Substring0(s, n) == SubSeq(s, 1, Min(n, Len(s)))

\* String.prototype.includes
Includes(s, p) ==
    \E k \in 0..(Len(s) - Len(p)) : SubSeq(s, k + 1, k + Len(p)) = p

\* n copies of the code unit c
Rep(c, n) == [k \in 1..n |-> c]

\* the character class [a-zA-Z0-9\u3040-\u309f\u30a0-\u30ff\u4e00-\u9fff]
IsKeyChar(c) ==
    \/ c \in 97..122 \/ c \in 65..90 \/ c \in 48..57
    \/ c \in 12352..12447 \/ c \in 12448..12543 \/ c \in 19968..40959

bookKeyLen == 50

\* title.substring(0, 50).replace(/[^...]/g, '_')
bookKey(title) ==
    LET t == Substring0(title, bookKeyLen)
    IN  [k \in 1..Len(t) |-> IF IsKeyChar(t[k]) THEN t[k] ELSE 95]

----------------------------------------------------------------------------
(* The planner's inputs *)

\* "ab" and "a b"
TitleA == <<97, 98>>
TitleB == <<97, 32, 98>>
Titles == {TitleA, TitleB}

\* parseInt of the count in the container text, or -1 when no count is shown
UnknownCount == -1
LiveCounts == {UnknownCount, 0, 1, 2}
RemoteCounts == {0, 1}

Containers == [title : Titles, count : LiveCounts]

SeqsUpTo(S, n) == UNION {[1..k -> S] : k \in 0..n}

\* a mapping as a JS object: a function on its own keys
Maps(K, V) == UNION {[S -> V] : S \in SUBSET K}

NotionCountMaps == Maps(Titles, RemoteCounts)

\* local caches a run without Notion counts leaves behind
LocalCaches == Maps({bookKey(t) : t \in Titles}, {1})

\* {...a, ...b}
Merge(a, b) ==
    [k \in (DOMAIN a) \cup (DOMAIN b) |-> IF k \in DOMAIN b THEN b[k] ELSE a[k]]

\* obj[k] || 0
GetOr0(m, k) == IF k \in DOMAIN m THEN m[k] ELSE 0

NoLimitCached == -1     \* cachedTestBookLimit === null
TestLimit == 5

----------------------------------------------------------------------------
(* Content script: planning pass *)

\* getTestBookLimit; ok = chrome.storage.sync.get did not throw
getTestBookLimit(ok) ==
    IF cachedTestBookLimit # NoLimitCached THEN cachedTestBookLimit
    ELSE IF ok /\ testMode THEN TestLimit
    ELSE 0

testModeActive == testBookLimit > 0

\* const TEST_BOOK_LIMIT = 0 of content.js, which has no getTestBookLimit
TEST_BOOK_LIMIT == 0

\* the limit the running script plans with
testBookLimitOf(ok) == IF script = "content.js" THEN TEST_BOOK_LIMIT ELSE getTestBookLimit(ok)
cachedLimitAfter(ok) ==
    IF script = "content.js" THEN cachedTestBookLimit ELSE getTestBookLimit(ok)

\* extractCurrentBook() returned null
NoBook == [highlights |-> -1]

\* single book view: allBooks after `if (singleBook) allBooks.push(singleBook)`
singleBookView ==
    IF currentBook = NoBook THEN <<>>
    ELSE <<[index |-> 0, highlights |-> currentBook.highlights]>>

\* faulty variant: the title counts as present only when its Notion count is truthy
existsInNotionTruthy(title) == useNotionCounts /\ GetOr0(notionCounts, title) # 0

existsInNotion(title) == useNotionCounts /\ title \in DOMAIN notionCounts

savedCountAuto(title, key) ==
    IF useNotionCounts THEN GetOr0(notionCounts, title) ELSE GetOr0(savedCounts, key)

\* faulty variant: a book that is not in Notion is diffed against the saved count
shouldProcessAutoCacheDiff(title, count, queued) ==
    IF testModeActive THEN queued < testBookLimit
    ELSE IF isFirstSync THEN TRUE
    ELSE IF existsInNotion(title)
         THEN count > 0 /\ count > savedCountAuto(title, bookKey(title))
    ELSE count # savedCountAuto(title, bookKey(title))

\* faulty variant: the test limit is left to the truncation after the loop
shouldProcessAutoNoLimit(title, count, queued) ==
    IF isFirstSync THEN TRUE
    ELSE IF existsInNotion(title)
         THEN count > 0 /\ count > savedCountAuto(title, bookKey(title))
    ELSE TRUE

\* the decision of extractAllBooksAuto for one container; queued = booksToProcess.length
shouldProcessAuto(title, count, queued) ==
    IF testModeActive THEN queued < testBookLimit
    ELSE IF isFirstSync THEN TRUE
    ELSE IF existsInNotion(title)
         THEN count > 0 /\ count > savedCountAuto(title, bookKey(title))
    ELSE TRUE

\* the decision of extractAllBooksAutoWithProgress for one container
shouldProcessProgress(title, count, queued) ==
    IF testModeActive THEN queued < testBookLimit
    ELSE \/ isFirstSync
         \/ count # GetOr0(savedCounts, bookKey(title))
         \/ count = UnknownCount

shouldProcess(title, count, queued) ==
    IF entry = "auto" THEN shouldProcessAuto(title, count, queued)
    ELSE shouldProcessProgress(title, count, queued)

Candidate(i) ==
    [index |-> i, title |-> view[i].title, highlightCount |-> view[i].count,
     bookKey |-> bookKey(view[i].title)]

\* faulty variant: candidates are put at the front of the queue
RECURSIVE FirstPassUnshift(_, _)
FirstPassUnshift(i, q) ==
    IF i > Len(view) THEN q
    ELSE FirstPassUnshift(i + 1,
                          IF shouldProcess(view[i].title, view[i].count, Len(q))
                          THEN <<Candidate(i)>> \o q ELSE q)

\* the first pass over bookContainers, from container i on with queue q
RECURSIVE FirstPass(_, _)
FirstPass(i, q) ==
    IF i > Len(view) THEN q
    ELSE FirstPass(i + 1,
                   IF shouldProcess(view[i].title, view[i].count, Len(q))
                   THEN Append(q, Candidate(i)) ELSE q)

\* newCounts[bookKey] = currentHighlightCount, for every container with a positive count
RECURSIVE ObservedCounts(_, _)
ObservedCounts(i, nc) ==
    IF i > Len(view) THEN nc
    ELSE ObservedCounts(i + 1,
                        IF view[i].count > 0
                        THEN Merge(nc, [k \in {bookKey(view[i].title)} |-> view[i].count])
                        ELSE nc)

\* booksToProcess.length = testBookLimit
ApplyTestLimit(q) ==
    IF testBookLimit > 0 /\ Len(q) > testBookLimit THEN SubSeq(q, 1, testBookLimit) ELSE q

\* faulty variant: the local cache is used even when Notion counts came
savedCountsLocalOnly(nc) == bookHighlightCounts

\* savedCounts of extractAllBooksAuto: the Notion counts, or the local cache when none came
savedCountsFor(nc) == IF DOMAIN nc # {} THEN nc ELSE bookHighlightCounts

\* extractAllBooksAuto up to the planning loop
StartAuto(nc, ok) ==
    /\ pc = "idle"
    /\ entry' = "auto"
    /\ notionCounts' = nc
    /\ IF Len(view) = 0
       THEN /\ pc' = "done"      \* single book view: no queue is built
            /\ allBooks' = singleBookView
            /\ UNCHANGED <<useNotionCounts, savedCounts, isFirstSync, testBookLimit,
                           cachedTestBookLimit>>
       ELSE /\ useNotionCounts' = (DOMAIN nc # {})
            /\ savedCounts' = savedCountsFor(nc)
            /\ isFirstSync' = (DOMAIN savedCounts' = {})
            /\ testBookLimit' = testBookLimitOf(ok)
            /\ cachedTestBookLimit' = cachedLimitAfter(ok)
            /\ pc' = "plan"
            /\ UNCHANGED allBooks
    /\ UNCHANGED <<view, bookHighlightCounts, testMode, booksToProcess, newCounts,
                   processedBooks, script, currentBook, pcBook, trace>>
    /\ UNCHANGED <<syncVars, waitVars, moreVars>>

\* extractAllBooksAutoWithProgress up to the planning loop
StartProgress(ok) ==
    /\ pc = "idle" /\ script = "part_000"
    /\ entry' = "progress"
    /\ IF Len(view) = 0
       THEN /\ pc' = "done"
            /\ allBooks' = singleBookView
            /\ UNCHANGED <<useNotionCounts, savedCounts, isFirstSync, testBookLimit,
                           cachedTestBookLimit>>
       ELSE /\ useNotionCounts' = FALSE
            /\ savedCounts' = bookHighlightCounts
            /\ isFirstSync' = (DOMAIN bookHighlightCounts = {})
            /\ testBookLimit' = getTestBookLimit(ok)
            /\ cachedTestBookLimit' = getTestBookLimit(ok)
            /\ pc' = "plan"
            /\ UNCHANGED allBooks
    /\ UNCHANGED <<view, bookHighlightCounts, testMode, notionCounts, booksToProcess,
                   newCounts, processedBooks, script, currentBook, pcBook, trace>>
    /\ progress' = Append(progress, [from |-> "content", current |-> 0,
                                         total |-> Len(view)])
    /\ UNCHANGED <<syncVars, waitVars, restVars>>

\* the first pass and the test limit
Plan ==
    /\ pc = "plan"
    /\ booksToProcess' = ApplyTestLimit(FirstPass(1, <<>>))
    /\ newCounts' = ObservedCounts(1, <<>>)
    /\ processedBooks' = 0
    /\ pc' = "process"
    /\ UNCHANGED <<view, bookHighlightCounts, testMode, cachedTestBookLimit, entry,
                   notionCounts, useNotionCounts, savedCounts, isFirstSync, testBookLimit,
                   extractVars>>
    /\ UNCHANGED <<syncVars, waitVars, moreVars>>

\* sendProgress(current, booksToProcess.length, ...) of the content script
contentProgress(current) ==
    [from |-> "content", current |-> current, total |-> Len(booksToProcess)]

\* the second pass takes the next candidate of the queue
ProcessBook ==
    /\ pc = "process" /\ pcBook = "idle"
    /\ processedBooks < Len(booksToProcess)
    /\ processedBooks' = processedBooks + 1
    /\ UNCHANGED <<view, bookHighlightCounts, testMode, cachedTestBookLimit, pc, entry,
                   notionCounts, useNotionCounts, savedCounts, isFirstSync, testBookLimit,
                   booksToProcess, newCounts, extractVars>>
    /\ progress' = Append(progress, contentProgress(processedBooks + 1))
    /\ UNCHANGED <<syncVars, waitVars, restVars>>

\* the candidate the loop body is working on
candidate == booksToProcess[processedBooks]

\* what the loop body leaves alone
bodyKeeps == <<view, bookHighlightCounts, testMode, cachedTestBookLimit, pc, entry,
               notionCounts, useNotionCounts, savedCounts, isFirstSync, testBookLimit,
               booksToProcess, newCounts, processedBooks, script, currentBook>>

\* waitForTitleUpdate calls that have returned for the candidate
waitsDone == {k \in 1..Len(trace) : trace[k] \in {"waitTrue", "waitFalse"}}

\* bookData.highlights = highlights; allBooks.push(bookData)
pushBook(n) == Append(allBooks, [index |-> candidate.index, highlights |-> n])

\* faulty variant: the loop queries the list again before it takes the next candidate
ClickBookReplans ==
    /\ pc = "process" /\ pcBook = "idle"
    /\ processedBooks < Len(booksToProcess)
    /\ processedBooks' = processedBooks + 1
    /\ booksToProcess' = ApplyTestLimit(FirstPass(1, <<>>))
    /\ trace' = <<"click">>
    /\ pcBook' = "wait"
    /\ UNCHANGED <<view, bookHighlightCounts, testMode, cachedTestBookLimit, pc, entry,
                   notionCounts, useNotionCounts, savedCounts, isFirstSync, testBookLimit,
                   newCounts, script, currentBook, allBooks>>
    /\ progress' = Append(progress, contentProgress(processedBooks + 1))
    /\ UNCHANGED <<syncVars, waitVars, restVars>>

\* faulty variant: progress is only sent once a book has been pushed
ClickBookSilent ==
    /\ pc = "process" /\ pcBook = "idle"
    /\ processedBooks < Len(booksToProcess)
    /\ processedBooks' = processedBooks + 1
    /\ trace' = <<"click">>
    /\ pcBook' = "wait"
    /\ UNCHANGED <<view, bookHighlightCounts, testMode, cachedTestBookLimit, pc, entry,
                   notionCounts, useNotionCounts, savedCounts, isFirstSync, testBookLimit,
                   booksToProcess, newCounts, script, currentBook, allBooks>>
    /\ UNCHANGED <<syncVars, waitVars, moreVars>>

\* the loop takes the next candidate and clicks its container, then awaits the detector
ClickBook ==
    /\ pc = "process" /\ pcBook = "idle"
    /\ processedBooks < Len(booksToProcess)
    /\ processedBooks' = processedBooks + 1
    /\ trace' = <<"click">>
    /\ pcBook' = "wait"
    /\ UNCHANGED <<view, bookHighlightCounts, testMode, cachedTestBookLimit, pc, entry,
                   notionCounts, useNotionCounts, savedCounts, isFirstSync, testBookLimit,
                   booksToProcess, newCounts, script, currentBook, allBooks>>
    /\ progress' = Append(progress, contentProgress(processedBooks + 1))
    /\ UNCHANGED <<syncVars, waitVars, restVars>>

\* faulty variant: the click is repeated after every failed detection
WaitReturnsRetryAgain(ok, sel) ==
    /\ pcBook = "wait"
    /\ IF ok
       THEN trace' = Append(trace, "waitTrue") /\ pcBook' = "delay"
       ELSE IF Cardinality(waitsDone) < 2
       THEN trace' = trace \o <<"waitFalse", "click">> /\ pcBook' = "wait"
       ELSE IF sel
       THEN trace' = trace \o <<"waitFalse", "selected">> /\ pcBook' = "delay"
       ELSE trace' = trace \o <<"waitFalse", "notSelected">> /\ pcBook' = "idle"
    /\ UNCHANGED <<bodyKeeps, allBooks>>
    /\ UNCHANGED <<syncVars, waitVars, moreVars>>

\* the awaited waitForTitleUpdate returns ok; sel is isBookSelected(book.container)
\* part_000: retry once, then proceed if selected, else continue with the next candidate
\* content.js: the result is not looked at
WaitReturns(ok, sel) ==
    /\ pcBook = "wait"
    /\ IF script = "content.js"
       THEN /\ trace' = Append(trace, IF ok THEN "waitTrue" ELSE "waitFalse")
            /\ pcBook' = "delay"
       ELSE IF ok
       THEN trace' = Append(trace, "waitTrue") /\ pcBook' = "delay"
       ELSE IF waitsDone = {}
       THEN trace' = trace \o <<"waitFalse", "click">> /\ pcBook' = "wait"
       ELSE IF sel
       THEN trace' = trace \o <<"waitFalse", "selected">> /\ pcBook' = "delay"
       ELSE trace' = trace \o <<"waitFalse", "notSelected">> /\ pcBook' = "idle"
    /\ UNCHANGED <<bodyKeeps, allBooks>>
    /\ UNCHANGED <<syncVars, waitVars, moreVars>>

\* after delay(500): extractHighlightsFromPage finds n highlights
\* part_000 looks again after delay(400) when it found none; content.js pushes or not
Extract(n) ==
    /\ pcBook = "delay"
    /\ trace' = Append(trace, "extract")
    /\ IF script = "content.js"
       THEN /\ allBooks' = IF n > 0 THEN pushBook(n) ELSE allBooks
            /\ pcBook' = "idle"
       ELSE IF n = 0
       THEN pcBook' = "delay2" /\ UNCHANGED allBooks
       ELSE pcBook' = "idle" /\ allBooks' = pushBook(n)
    /\ UNCHANGED bodyKeeps
    /\ progress' = IF Len(allBooks') > Len(allBooks) /\ entry = "auto"
                 THEN Append(progress, contentProgress(processedBooks))
                 ELSE progress
    /\ UNCHANGED <<syncVars, waitVars, restVars>>

\* part_000, after delay(400): the second extractHighlightsFromPage finds n highlights
ExtractAgain(n) ==
    /\ pcBook = "delay2"
    /\ trace' = Append(trace, "extract")
    /\ allBooks' = IF n > 0 \/ testModeActive THEN pushBook(n) ELSE allBooks
    /\ pcBook' = "idle"
    /\ UNCHANGED bodyKeeps
    /\ progress' = IF Len(allBooks') > Len(allBooks) /\ entry = "auto"
                 THEN Append(progress, contentProgress(processedBooks))
                 ELSE progress
    /\ UNCHANGED <<syncVars, waitVars, restVars>>

\* chrome.storage.local.set({bookHighlightCounts: {...savedCounts, ...newCounts}})
SaveCounts(ok) ==
    /\ pc = "process" /\ pcBook = "idle"
    /\ processedBooks = Len(booksToProcess)
    /\ bookHighlightCounts' = IF ok THEN Merge(savedCounts, newCounts) ELSE bookHighlightCounts
    /\ pc' = "done"
    /\ UNCHANGED <<view, testMode, cachedTestBookLimit, entry, notionCounts,
                   useNotionCounts, savedCounts, isFirstSync, testBookLimit,
                   booksToProcess, newCounts, processedBooks, extractVars>>
    /\ UNCHANGED <<syncVars, waitVars, moreVars>>

----------------------------------------------------------------------------
(* Notion: the database, its pages and their blocks *)

\* the count properties createBookPage looks for, in its order:
\* 'Highlight Count', its Japanese name (U+30CF U+30A4 U+30E9 U+30A4 U+30C8 U+6570)
\* and 'highlight_count'
PropHighlightCount == "Highlight Count"
PropHighlightCountJa == "Highlight Count (ja)"
PropHighlightCountSnake == "highlight_count"
CountPropNames == <<PropHighlightCount, PropHighlightCountJa, PropHighlightCountSnake>>

NoNumber == -1          \* a number property holding null

\* findProperty(['Highlight Count', ..., 'highlight_count']): index of the first name the
\* database has, 0 when it has none
findProperty(names) ==
    IF \E k \in 1..Len(names) : names[k] \in dbProperties
    THEN CHOOSE k \in 1..Len(names) :
            /\ names[k] \in dbProperties
            /\ \A j \in 1..(k - 1) : names[j] \notin dbProperties
    ELSE 0

\* the properties createBookPage sends: the count goes to the first count property found
createProps(n) ==
    LET k == findProperty(CountPropNames)
    IN  [q \in dbProperties |-> IF k # 0 /\ q = CountPropNames[k] THEN n ELSE NoNumber]

\* the properties updateBookPage sends for {highlightCount: n}
updateProps(n) ==
    IF PropHighlightCount \in dbProperties
    THEN [q \in {PropHighlightCount} |-> n]
    ELSE <<>>

\* countProp.number || 0 of getAllBooksWithHighlightCount, for one page
readHighlightCount(pg) ==
    LET name == IF PropHighlightCount \in DOMAIN pg.props THEN PropHighlightCount
                ELSE IF PropHighlightCountJa \in DOMAIN pg.props THEN PropHighlightCountJa
                ELSE "none"
    IN  IF name = "none" \/ pg.props[name] = NoNumber THEN 0 ELSE pg.props[name]

\* getAllBooksWithHighlightCount: books[title] = highlightCount, later pages overwrite
RECURSIVE getAllBooksWithHighlightCount(_, _)
getAllBooksWithHighlightCount(k, acc) ==
    IF k > Len(pages) THEN acc
    ELSE getAllBooksWithHighlightCount(k + 1,
            IF Len(pages[k].title) > 0
            THEN Merge(acc, [t \in {pages[k].title} |-> readHighlightCount(pages[k])])
            ELSE acc)

\* "\n" + the pin emoji + " " + U+4F4D U+7F6E + "No. "
LocationPrefix == <<10, 55357, 56525, 32, 20301, 32622, 78, 111, 46, 32>>

\* the plain text of the quote block addHighlightBlocks builds for a highlight
blockText(h) ==
    IF Len(h.location) > 0 THEN h.text \o LocationPrefix \o h.location ELSE h.text

toBlock(h) == [type |-> "quote", text |-> blockText(h)]

\* highlights.map(...) of addHighlightBlocks
toChildren(hl) == [k \in 1..Len(hl) |-> toBlock(hl[k])]

IsHighlightBlock(b) == b.type \in {"quote", "callout"}

\* getExistingHighlights: the texts of the page's quote and callout blocks, in order
getExistingHighlights(p) ==
    LET hs == SelectSeq(pages[p].blocks, IsHighlightBlock)
    IN  [k \in 1..Len(hs) |-> hs[k].text]

prefixLen == 50

\* faulty variant: a highlight is known only when a block holds exactly its text
isNewHighlightExact(h, existing) ==
    ~ \E k \in 1..Len(existing) : existing[k] = h.text

\* !existingHighlights.some(existing => existing.includes(h.text.substring(0, 50)))
isNewHighlight(h, existing) ==
    ~ \E k \in 1..Len(existing) : Includes(existing[k], Substring0(h.text, prefixLen))

\* book.highlights.filter(...)
filterNew(hl, existing) ==
    LET Keep(h) == isNewHighlight(h, existing) IN SelectSeq(hl, Keep)

batchSize == 100

\* children.slice(i, i + batchSize), i counted from 0
batchAt(i) == SubSeq(children, i + 1, Min(i + batchSize, Len(children)))

\* faulty variant: the delay follows every request, the last one too
delayAfterEvery(i) == TRUE

\* whether addHighlightBlocks waits after the request that started at i
delayAfter(i) == i + batchSize < Len(children)

\* the count the planner gets for book b's title is missing or below b's highlights
countIsBehind(b) ==
    LET counts == getAllBooksWithHighlightCount(1, <<>>)
    IN  \/ b.title \notin DOMAIN counts
        \/ counts[b.title] < Len(b.highlights)

----------------------------------------------------------------------------
(* Background worker: syncBooksToNotion, with the client calls it awaits *)

storeVars == <<dbProperties, pages>>
callVars == <<children, batchI, callSite, inFlight, netLog>>
countVars == <<newBooks, newHighlights, updatedBooks>>
histVars == <<runNo, pagesCreated, blocksAppended, prevClean, begun, behind>>

\* a remote operation fails only while the failure budget lasts
Outcome(ok) ==
    /\ ok \/ failures < MaxFailures
    /\ failures' = IF ok THEN failures ELSE failures + 1

\* faulty variant: the error ends the loop
CatchAbort ==
    /\ outcome' = "failed"
    /\ runFailed' = TRUE
    /\ bookIdx' = bookIdx
    /\ pcSync' = "done"

\* broadcastProgress(current, books.length, ...) of the worker
workerProgress(current) == [from |-> "worker", current |-> current, total |-> Len(books)]

\* the progress messages of the content script
fromContent(m) == m.from = "content"

\* the catch block of the per-book try: log the error, go on with the next book
Catch ==
    /\ outcome' = "failed"
    /\ runFailed' = TRUE
    /\ bookIdx' = bookIdx + 1
    /\ pcSync' = "book"

\* the syncToNotion message: counters start at 0, the loop at the first book
SyncToNotion ==
    /\ pcSync \in {"idle", "done"}
    /\ runNo < MaxRuns
    /\ runNo' = runNo + 1
    /\ prevClean' = (pcSync = "done" /\ ~runFailed)
    /\ runFailed' = FALSE
    /\ newBooks' = 0 /\ newHighlights' = 0 /\ updatedBooks' = 0
    /\ pagesCreated' = 0 /\ blocksAppended' = 0
    /\ begun' = <<>> /\ behind' = FALSE
    /\ bookIdx' = 1
    /\ page' = 0
    /\ existingHighlights' = <<>> /\ newHighlightsList' = <<>>
    /\ outcome' = "none"
    /\ pcSync' = "book"
    /\ UNCHANGED <<storeVars, callVars, books, failures>>
    /\ progress' = SelectSeq(progress, fromContent)
    /\ UNCHANGED <<planVars, waitVars, restVars>>

\* top of the loop body: progress and log broadcast, then the title test
BeginBook ==
    /\ pcSync = "book"
    /\ bookIdx <= Len(books)
    /\ page' = 0
    /\ outcome' = "none"
    /\ pcSync' = IF Len(books[bookIdx].title) > 0 THEN "find" ELSE "create"
    /\ begun' = Append(begun, bookIdx)
    /\ behind' = countIsBehind(books[bookIdx])
    /\ UNCHANGED <<storeVars, callVars, countVars, runNo, pagesCreated, blocksAppended,
                   prevClean, books, bookIdx,
                   existingHighlights, newHighlightsList, failures, runFailed>>
    /\ progress' = Append(progress, workerProgress(bookIdx))
    /\ UNCHANGED <<planVars, waitVars, restVars>>

\* the loop is over: return {success: true, newBooks, updatedBooks, newHighlights, totalProcessed}
Return ==
    /\ pcSync = "book"
    /\ bookIdx > Len(books)
    /\ pcSync' = "done"
    /\ UNCHANGED <<storeVars, callVars, countVars, histVars, books, bookIdx, page,
                   existingHighlights, newHighlightsList, outcome, failures, runFailed>>
    /\ UNCHANGED <<planVars, waitVars, moreVars>>

\* findBookByTitle: getDatabase throws
FindThrows ==
    /\ pcSync = "find"
    /\ Outcome(FALSE)
    /\ Catch
    /\ UNCHANGED <<storeVars, callVars, countVars, histVars, books, page,
                   existingHighlights, newHighlightsList>>
    /\ UNCHANGED <<planVars, waitVars, moreVars>>

\* findBookByTitle: the query throws, which its own catch turns into "no page"
FindQueryFails ==
    /\ pcSync = "find"
    /\ Outcome(FALSE)
    /\ page' = 0
    /\ pcSync' = "create"
    /\ UNCHANGED <<storeVars, callVars, countVars, histVars, books, bookIdx,
                   existingHighlights, newHighlightsList, outcome, runFailed>>
    /\ UNCHANGED <<planVars, waitVars, moreVars>>

\* the pages whose title equals t
pagesTitled(t) == {p \in 1..Len(pages) : pages[p].title = t}

\* findBookByTitle: response.results[0], or null when there is no result
FindBookByTitle ==
    /\ pcSync = "find"
    /\ \E p \in 0..Len(pages) :
          /\ IF pagesTitled(books[bookIdx].title) = {}
             THEN p = 0
             ELSE p \in pagesTitled(books[bookIdx].title)
          /\ page' = p
          /\ pcSync' = IF p # 0 THEN "existing" ELSE "create"
    /\ UNCHANGED <<storeVars, callVars, countVars, histVars, books, bookIdx,
                   existingHighlights, newHighlightsList, outcome, failures, runFailed>>
    /\ UNCHANGED <<planVars, waitVars, moreVars>>

\* the page exists: read its highlights and filter the book's against them
GetExistingHighlights(ok) ==
    /\ pcSync = "existing"
    /\ Outcome(ok)
    /\ IF ok
       THEN /\ existingHighlights' = getExistingHighlights(page)
            /\ newHighlightsList' =
                  filterNew(books[bookIdx].highlights, getExistingHighlights(page))
            /\ IF Len(newHighlightsList') > 0
               THEN /\ children' = toChildren(newHighlightsList')
                    /\ batchI' = 0
                    /\ callSite' = "existingPage"
                    /\ netLog' = <<>>
                    /\ pcSync' = "append"
                    /\ UNCHANGED outcome
               ELSE /\ outcome' = "unchanged"
                    /\ pcSync' = "endBook"
                    /\ UNCHANGED <<children, batchI, callSite, netLog>>
            /\ UNCHANGED <<bookIdx, runFailed>>
       ELSE /\ Catch
            /\ UNCHANGED <<existingHighlights, newHighlightsList, children, batchI,
                           callSite, netLog>>
    /\ UNCHANGED <<storeVars, countVars, histVars, books, page, inFlight>>
    /\ UNCHANGED <<planVars, waitVars, moreVars>>

\* no page was found: createBookPage, then the book's highlights if it has any
CreateBookPage(ok) ==
    /\ pcSync = "create"
    /\ Outcome(ok)
    /\ IF ok
       THEN /\ pages' = Append(pages, [title |-> books[bookIdx].title,
                                       props |-> createProps(Len(books[bookIdx].highlights)),
                                       blocks |-> <<>>])
            /\ page' = Len(pages) + 1
            /\ newBooks' = newBooks + 1
            /\ pagesCreated' = pagesCreated + 1
            /\ IF Len(books[bookIdx].highlights) > 0
               THEN /\ children' = toChildren(books[bookIdx].highlights)
                    /\ batchI' = 0
                    /\ callSite' = "newPage"
                    /\ netLog' = <<>>
                    /\ pcSync' = "append"
                    /\ UNCHANGED outcome
               ELSE /\ outcome' = "created"
                    /\ pcSync' = "endBook"
                    /\ UNCHANGED <<children, batchI, callSite, netLog>>
            /\ UNCHANGED <<bookIdx, runFailed>>
       ELSE /\ Catch
            /\ UNCHANGED <<pages, page, newBooks, pagesCreated, children, batchI,
                           callSite, netLog>>
    /\ UNCHANGED <<dbProperties, books, existingHighlights, newHighlightsList, inFlight,
                   newHighlights, updatedBooks, runNo, blocksAppended, prevClean,
                   begun, behind>>
    /\ UNCHANGED <<planVars, waitVars, moreVars>>

LogSend(b) == [ev |-> "send", blocks |-> b]
LogResp(ok) == [ev |-> IF ok THEN "ok" ELSE "error", blocks |-> <<>>]
LogDelay == [ev |-> "delay", blocks |-> <<>>]

\* what addHighlightBlocks logs once the request that started at i has succeeded
afterBatch(i) == IF delayAfter(i) THEN <<LogResp(TRUE), LogDelay>> ELSE <<LogResp(TRUE)>>

\* addHighlightBlocks: the loop condition holds, the next PATCH is sent
AppendSend ==
    /\ pcSync = "append"
    /\ batchI < Len(children)
    /\ inFlight' = inFlight + 1
    /\ netLog' = Append(netLog, LogSend(batchAt(batchI)))
    /\ pcSync' = "appendWait"
    /\ UNCHANGED <<storeVars, countVars, histVars, books, bookIdx, page, existingHighlights,
                   newHighlightsList, children, batchI, callSite, outcome, failures,
                   runFailed>>
    /\ UNCHANGED <<planVars, waitVars, moreVars>>

\* addHighlightBlocks: the awaited PATCH answers
AppendResp(ok) ==
    /\ pcSync = "appendWait"
    /\ Outcome(ok)
    /\ inFlight' = inFlight - 1
    /\ IF ok
       THEN /\ pages' = [pages EXCEPT ![page].blocks = @ \o batchAt(batchI)]
            /\ blocksAppended' = blocksAppended + Len(batchAt(batchI))
            /\ netLog' = netLog \o afterBatch(batchI)
            /\ batchI' = batchI + batchSize
            /\ pcSync' = "append"
            /\ UNCHANGED <<bookIdx, outcome, runFailed>>
       ELSE /\ netLog' = Append(netLog, LogResp(FALSE))
            /\ IF callSite = "direct"
               THEN /\ pcSync' = "thrown"
                    /\ UNCHANGED <<bookIdx, outcome, runFailed>>
               ELSE Catch
            /\ UNCHANGED <<pages, blocksAppended, batchI>>
    /\ UNCHANGED <<dbProperties, countVars, books, page, existingHighlights,
                   newHighlightsList, children, callSite, runNo, pagesCreated, prevClean,
                   begun, behind>>
    /\ UNCHANGED <<planVars, waitVars, moreVars>>

\* addHighlightBlocks returns to the statement after its call
AppendReturn ==
    /\ pcSync = "append"
    /\ batchI >= Len(children)
    /\ IF callSite = "existingPage"
       THEN /\ newHighlights' = newHighlights + Len(newHighlightsList)
            /\ pcSync' = "update"
            /\ UNCHANGED outcome
       ELSE IF callSite = "newPage"
       THEN /\ newHighlights' = newHighlights + Len(books[bookIdx].highlights)
            /\ outcome' = "created"
            /\ pcSync' = "endBook"
       ELSE /\ pcSync' = "returned"
            /\ UNCHANGED <<newHighlights, outcome>>
    /\ UNCHANGED <<storeVars, callVars, histVars, books, bookIdx, page, existingHighlights,
                   newHighlightsList, newBooks, updatedBooks, failures, runFailed>>
    /\ UNCHANGED <<planVars, waitVars, moreVars>>

\* updateBookPage(page.id, {highlightCount: existing + new}, databaseId)
UpdateBookPage(ok) ==
    /\ pcSync = "update"
    /\ Outcome(ok)
    /\ IF ok
       THEN /\ pages' = [pages EXCEPT ![page].props =
                            Merge(@, updateProps(Len(existingHighlights) + Len(newHighlightsList)))]
            /\ updatedBooks' = updatedBooks + 1
            /\ outcome' = "updated"
            /\ pcSync' = "endBook"
            /\ UNCHANGED <<bookIdx, runFailed>>
       ELSE /\ Catch
            /\ UNCHANGED <<pages, updatedBooks>>
    /\ UNCHANGED <<dbProperties, callVars, histVars, books, page, existingHighlights,
                   newHighlightsList, newBooks, newHighlights>>
    /\ UNCHANGED <<planVars, waitVars, moreVars>>

\* the end of the try block: progress broadcast, delay(350), next book
EndBook ==
    /\ pcSync = "endBook"
    /\ bookIdx' = bookIdx + 1
    /\ pcSync' = "book"
    /\ UNCHANGED <<storeVars, callVars, countVars, histVars, books, page,
                   existingHighlights, newHighlightsList, outcome, failures, runFailed>>
    /\ progress' = Append(progress, workerProgress(bookIdx))
    /\ UNCHANGED <<planVars, waitVars, restVars>>

----------------------------------------------------------------------------
(* Inputs of the background worker *)

\* 50 times "a", then "b" / "c": two texts with the same first 50 characters
TextP == Rep(97, 50) \o <<98>>
TextQ == Rep(97, 50) \o <<99>>
\* "b", a substring of TextP, and "xy"
TextR == <<98>>
TextS == <<120, 121>>

HlP == [text |-> TextP, location |-> <<>>]
HlQ == [text |-> TextQ, location |-> <<55>>]
HlR == [text |-> TextR, location |-> <<>>]
HlS == [text |-> TextS, location |-> <<>>]
Highlights == {HlP, HlQ, HlR}

\* the first book of a request
BookKinds == [title : {TitleA}, highlights : SeqsUpTo(Highlights, MaxHighlights)]

\* the second book of a two-book request: the same title again, or another one
FollowUps == {[title |-> t, highlights |-> <<HlS>>] : t \in Titles}

\* requests of no book, one book, or a book of at most one highlight and a second book
BookLists ==
    {<<>>} \cup {<<b>> : b \in BookKinds}
           \cup {<<b, c>> : b \in {k \in BookKinds : Len(k.highlights) <= 1}, c \in FollowUps}

DbSchemas == SUBSET {PropHighlightCount, PropHighlightCountJa}

\* the database before the first run: empty, or one page for TitleA that an earlier
\* sync created (with a note the user added and an old callout highlight)
InitialStores ==
    { <<>>,
      <<[title |-> TitleA, props |-> createProps(1), blocks |-> <<toBlock(HlP)>>]>>,
      <<[title |-> TitleA, props |-> createProps(2),
         blocks |-> <<[type |-> "paragraph", text |-> TextR], toBlock(HlS),
                      [type |-> "callout", text |-> blockText(HlQ)]>>]>> }

\* the k-th of the highlights handed to addHighlightBlocks directly
BatchHighlight(k) == [text |-> <<256 + k>>, location |-> <<>>]

----------------------------------------------------------------------------
(* Content script: waitForTitleUpdate *)

\* \s of a JavaScript regular expression, which is also what trim() removes
IsSpace(c) ==
    c \in {9, 10, 11, 12, 13, 32, 160, 5760, 8232, 8233, 8239, 8287, 12288, 65279}
            \cup (8192..8202)

\* the character class normalizeTitle removes
IsStripChar(c) ==
    IF IsSpace(c) THEN TRUE
    ELSE c \in {12288, 45, 58, 65306, 12539, 12289, 12290, 65281, 65311, 33, 63, 44, 46,
                40, 41, 65288, 65289, 12304, 12305, 91, 93} \cup (8208..8213)

\* the character class splitTitle splits on
IsSplitChar(c) ==
    c \in {12288, 58, 65306, 12539, 45, 8211, 8212, 12316, 124} \cup (8208..8213)

normLen == 30

\* faulty variant: the replace has no g flag and removes the first match only
normalizeTitleFirstMatch(title) ==
    LET hits == {k \in 1..Len(title) : IsStripChar(title[k])}
        first == CHOOSE k \in hits : \A j \in hits : k <= j
    IN  Substring0(IF hits = {} THEN title
                   ELSE SubSeq(title, 1, first - 1) \o SubSeq(title, first + 1, Len(title)),
                   normLen)

\* title.replace(/[...]/g, '').substring(0, 30)
normalizeTitle(title) ==
    LET Keep(c) == ~IsStripChar(c) IN Substring0(SelectSeq(title, Keep), normLen)

RECURSIVE TrimLeft(_)
TrimLeft(s) == IF Len(s) > 0 /\ IsSpace(s[1]) THEN TrimLeft(Tail(s)) ELSE s

RECURSIVE TrimRight(_)
TrimRight(s) ==
    IF Len(s) > 0 /\ IsSpace(s[Len(s)]) THEN TrimRight(SubSeq(s, 1, Len(s) - 1)) ELSE s

\* String.prototype.trim
Trim(s) == TrimRight(TrimLeft(s))

\* String.prototype.split on the delimiter class: the parts of s, empty ones included
RECURSIVE SplitParts(_, _, _)
SplitParts(s, cur, acc) ==
    IF Len(s) = 0 THEN Append(acc, cur)
    ELSE IF IsSplitChar(Head(s)) THEN SplitParts(Tail(s), <<>>, Append(acc, cur))
    ELSE SplitParts(Tail(s), Append(cur, Head(s)), acc)

\* title.split(/[...]/).map(part => part.trim()).filter(Boolean)
splitTitle(title) ==
    LET parts == SplitParts(title, <<>>, <<>>)
        trimmed == [k \in 1..Len(parts) |-> Trim(parts[k])]
        NonEmpty(part) == Len(part) > 0
    IN  SelectSeq(trimmed, NonEmpty)

variantPrefixShort == 10
variantPrefixLong == 15

\* what the call adds to the Set expectedVariants
variantsOf(expected) ==
    LET expectedNorm == normalizeTitle(expected)
        parts == splitTitle(expected)
    IN  {expectedNorm}
          \cup {normalizeTitle(parts[k]) : k \in 1..Len(parts)}
          \cup (IF Len(expectedNorm) > variantPrefixShort
                THEN {Substring0(expectedNorm, variantPrefixShort)} ELSE {})
          \cup (IF Len(expectedNorm) > variantPrefixLong
                THEN {Substring0(expectedNorm, variantPrefixLong)} ELSE {})

\* faulty variant: the panel title has to contain the variant
matchesExpectedOneWay(currentTitle, variants) ==
    IF Len(currentTitle) = 0 THEN FALSE
    ELSE \E norm \in {normalizeTitle(currentTitle)} :
            \E variant \in variants : Len(variant) > 0 /\ Includes(norm, variant)

\* matchesExpected(currentTitle), over the variants the call holds
matchesExpected(currentTitle, variants) ==
    IF Len(currentTitle) = 0 THEN FALSE
    ELSE \E norm \in {normalizeTitle(currentTitle)} :
            \E variant \in variants :
                /\ Len(variant) > 0
                /\ Includes(norm, variant) \/ Includes(variant, norm)

signatureLen == 50

\* readHighlightSignature: '' (here <<>>) without highlight elements, else
\* `${highlightEls.length}|${firstText.substring(0, 50)}` (here the pair)
readHighlightSignature(contents) ==
    IF Len(contents) = 0 THEN <<>>
    ELSE <<Len(contents), Substring0(Trim(contents[1]), signatureLen)>>

\* faulty variant: a changed signature is enough, selected or not
isReadyIgnoresSelection(variants, initSig) ==
    IF matchesExpected(panelTitle, variants) THEN TRUE
    ELSE LET currentSignature == readHighlightSignature(panelContents)
         IN  currentSignature # <<>> /\ currentSignature # initSig

\* faulty variant: only the title is looked at
isReadyTitleOnly(variants, initSig) == matchesExpected(panelTitle, variants)

\* isReady() against the variants and the snapshot the call holds
isReady(variants, initSig) ==
    IF matchesExpected(panelTitle, variants) THEN TRUE
    ELSE LET currentSignature == readHighlightSignature(panelContents)
         IN  currentSignature # <<>> /\ currentSignature # initSig /\ selected

waitTimeout == 8000
pollInterval == 200

finishVars == <<done, observerOn, intervalOn, timerOn, result, resolutions, wpc>>

\* faulty variant: finish resolves but leaves the interval running
finishKeepsInterval(ok) ==
    IF done THEN UNCHANGED finishVars
    ELSE /\ done' = TRUE
         /\ observerOn' = FALSE /\ timerOn' = FALSE
         /\ result' = ok /\ resolutions' = Append(resolutions, ok)
         /\ wpc' = "resolved"
         /\ UNCHANGED intervalOn

\* finish(ok): once only; disconnect the observer, clear interval and timeout, resolve
finish(ok) ==
    IF done THEN UNCHANGED finishVars
    ELSE /\ done' = TRUE
         /\ observerOn' = FALSE /\ intervalOn' = FALSE /\ timerOn' = FALSE
         /\ result' = ok /\ resolutions' = Append(resolutions, ok)
         /\ wpc' = "resolved"

domVars == <<expectedTitle, panelTitle, panelContents, selected>>
snapVars == <<expectedVariants, initialSignature>>

\* waitForTitleUpdate(expectedTitle, container) up to the point where it returns or waits
CallWait ==
    /\ wpc = "idle"
    /\ IF Len(expectedTitle) = 0
       THEN /\ result' = "true" /\ resolutions' = Append(resolutions, "true")
            /\ wpc' = "resolved"
            /\ UNCHANGED <<expectedVariants, initialSignature, observerOn, intervalOn, timerOn>>
       ELSE /\ expectedVariants' = variantsOf(expectedTitle)
            /\ initialSignature' = readHighlightSignature(panelContents)
            /\ IF isReady(expectedVariants', initialSignature')
               THEN /\ result' = "true" /\ resolutions' = Append(resolutions, "true")
                    /\ wpc' = "resolved"
                    /\ UNCHANGED <<observerOn, intervalOn, timerOn>>
               ELSE /\ observerOn' = TRUE /\ intervalOn' = TRUE /\ timerOn' = TRUE
                    /\ wpc' = "pending"
                    /\ UNCHANGED <<result, resolutions>>
    /\ now' = 0
    /\ UNCHANGED <<domVars, done, mutationPending, intervalDue, changes>>
    /\ UNCHANGED <<planVars, syncVars, moreVars>>

\* the page changes the panel title, the highlights or the selection mark (one of them
\* per step; several steps may precede the observer callback, finitely many fit
\* between two moves of the clock); a change of the
\* highlights is a mutation under the observed root, a change of the title may be one
DomChange(t, c, sel, notify) ==
    /\ wpc = "pending" /\ changes < MaxChangesPerTick
    /\ changes' = changes + 1
    /\ Cardinality({k \in 1..3 : <<t, c, sel>>[k] # <<panelTitle, panelContents, selected>>[k]}) = 1
    /\ c # panelContents => notify
    /\ notify => <<t, c>> # <<panelTitle, panelContents>>
    /\ panelTitle' = t /\ panelContents' = c /\ selected' = sel
    /\ mutationPending' = IF notify /\ observerOn THEN TRUE ELSE mutationPending
    /\ UNCHANGED <<expectedTitle, snapVars, finishVars, intervalDue, now>>
    /\ UNCHANGED <<planVars, syncVars, moreVars>>

\* faulty variant: the observer callback marks the container as selected
MutationCallbackSelects ==
    /\ observerOn /\ mutationPending
    /\ IF isReady(expectedVariants, initialSignature) THEN finish("true") ELSE UNCHANGED finishVars
    /\ mutationPending' = FALSE
    /\ selected' = TRUE
    /\ UNCHANGED <<expectedTitle, panelTitle, panelContents, snapVars, intervalDue, now, changes>>
    /\ UNCHANGED <<planVars, syncVars, moreVars>>

\* the MutationObserver callback: if (isReady()) finish(true)
MutationCallback ==
    /\ observerOn /\ mutationPending
    /\ IF isReady(expectedVariants, initialSignature) THEN finish("true") ELSE UNCHANGED finishVars
    /\ mutationPending' = FALSE
    /\ UNCHANGED <<domVars, snapVars, intervalDue, now, changes>>
    /\ UNCHANGED <<planVars, syncVars, moreVars>>

\* the setInterval callback: if (isReady()) finish(true)
IntervalTick ==
    /\ intervalOn /\ intervalDue /\ ~mutationPending
    /\ IF isReady(expectedVariants, initialSignature) THEN finish("true") ELSE UNCHANGED finishVars
    /\ intervalDue' = FALSE
    /\ UNCHANGED <<domVars, snapVars, mutationPending, now, changes>>
    /\ UNCHANGED <<planVars, syncVars, moreVars>>

\* faulty variant: the timeout fires one interval early
TimeoutFireEarly ==
    /\ timerOn /\ now >= waitTimeout - pollInterval /\ ~mutationPending
    /\ finish("false")
    /\ UNCHANGED <<domVars, snapVars, mutationPending, intervalDue, now, changes>>
    /\ UNCHANGED <<planVars, syncVars, moreVars>>

\* the setTimeout callback: finish(false)
TimeoutFire ==
    /\ timerOn /\ now >= waitTimeout /\ ~mutationPending
    /\ finish("false")
    /\ UNCHANGED <<domVars, snapVars, mutationPending, intervalDue, now, changes>>
    /\ UNCHANGED <<planVars, syncVars, moreVars>>

\* time passes until the interval is due again; no callback is waiting
Advance ==
    /\ wpc = "pending" /\ ~mutationPending /\ ~intervalDue
    /\ now < waitTimeout
    /\ now' = now + pollInterval
    /\ intervalDue' = intervalOn /\ changes' = 0
    /\ UNCHANGED <<domVars, snapVars, finishVars, mutationPending>>
    /\ UNCHANGED <<planVars, syncVars, moreVars>>

\* "Atomic Habits: An Easy Way...", ":" and the empty title
TitleAtomicLong ==
    <<65, 116, 111, 109, 105, 99, 32, 72, 97, 98, 105, 116, 115, 58, 32, 65, 110, 32, 69,
      97, 115, 121, 32, 87, 97, 121, 46, 46, 46>>
TitleColon == <<58>>
ExpectedTitles == {<<>>, TitleAtomicLong, TitleColon}

\* "Atomic Habits", "Atomic", "...", "Dune" and no title
TitleAtomicHabits == <<65, 116, 111, 109, 105, 99, 32, 72, 97, 98, 105, 116, 115>>
TitleAtomic == <<65, 116, 111, 109, 105, 99>>
TitleDots == <<46, 46, 46>>
TitleDune == <<68, 117, 110, 101>>
PanelTitles == {<<>>, TitleAtomicHabits, TitleAtomic, TitleDots, TitleDune}

\* detail panels: no highlight, one of two that agree in their first 50 characters, a short one
PanelContents == {<<>>, <<TextP>>, <<TextQ>>, <<TextR>>}

----------------------------------------------------------------------------
(* Specifications *)

ExtractIdle == allBooks = <<>> /\ pcBook = "idle" /\ trace = <<>>

\* the list view of part_000; extractCurrentBook is not reached
Part000OnList == script = "part_000" /\ currentBook = NoBook

PlanOff ==
    /\ ExtractIdle /\ Part000OnList
    /\ view = <<>> /\ bookHighlightCounts = <<>> /\ testMode = FALSE
    /\ cachedTestBookLimit = NoLimitCached /\ pc = "off" /\ entry = "none"
    /\ notionCounts = <<>> /\ useNotionCounts = FALSE /\ savedCounts = <<>>
    /\ isFirstSync = FALSE /\ testBookLimit = 0 /\ booksToProcess = <<>>
    /\ newCounts = <<>> /\ processedBooks = 0

SyncOff ==
    /\ dbProperties = {} /\ pages = <<>> /\ books = <<>> /\ pcSync = "off"
    /\ bookIdx = 0 /\ page = 0 /\ existingHighlights = <<>> /\ newHighlightsList = <<>>
    /\ children = <<>> /\ batchI = 0 /\ callSite = "none" /\ inFlight = 0
    /\ newBooks = 0 /\ newHighlights = 0 /\ updatedBooks = 0 /\ outcome = "none"
    /\ netLog = <<>> /\ runNo = 0 /\ failures = 0 /\ pagesCreated = 0
    /\ blocksAppended = 0 /\ runFailed = FALSE /\ prevClean = FALSE
    /\ begun = <<>> /\ behind = FALSE

WaitOff ==
    /\ expectedTitle = <<>> /\ panelTitle = <<>> /\ panelContents = <<>>
    /\ selected = FALSE /\ initialSignature = <<>> /\ wpc = "off" /\ done = FALSE
    /\ result = "none" /\ observerOn = FALSE /\ intervalOn = FALSE /\ timerOn = FALSE
    /\ mutationPending = FALSE /\ intervalDue = FALSE /\ now = 0
    /\ resolutions = <<>> /\ changes = 0 /\ expectedVariants = {}

IdemOff == arg = <<>> /\ fn = "none" /\ calls = 0 /\ once = <<>> /\ twice = <<>>

NoTab == 0

\* no sync window is open
WindowOff ==
    /\ notionConfigured = FALSE /\ isSyncing = FALSE /\ kindleTabId = NoTab
    /\ step = "off" /\ finishLeft = 0 /\ logList = <<>> /\ tabOpen = FALSE
    /\ starts = 0 /\ reads = 0 /\ windowCounts = <<>>

\* no startSync call is followed
RaceOff == syncRuns = <<>> /\ openTabs = {} /\ syncBtnDisabled = FALSE

\* no paginated read is followed
ListOff ==
    /\ listFn = "none" /\ pcList = "off" /\ cursor = 0 /\ hasMore = FALSE
    /\ highlights = <<>> /\ titleCounts = <<>> /\ visited = <<>> /\ pageSize = 0

\* no message is under way
MsgOff == toWorker = <<>> /\ toWindow = <<>> /\ sentLogs = {}

MoreOff == IdemOff /\ WindowOff /\ MsgOff /\ RaceOff /\ ListOff /\ progress = <<>>

PlanIdle ==
    /\ pc = "idle" /\ entry = "none"
    /\ notionCounts = <<>> /\ useNotionCounts = FALSE /\ savedCounts = <<>>
    /\ isFirstSync = FALSE /\ testBookLimit = 0 /\ booksToProcess = <<>>
    /\ newCounts = <<>> /\ processedBooks = 0

\* a freshly injected content script on a list view
Init ==
    /\ view \in SeqsUpTo(Containers, MaxBooks)
    /\ bookHighlightCounts \in LocalCaches
    /\ testMode \in BOOLEAN
    /\ cachedTestBookLimit = NoLimitCached
    /\ PlanIdle /\ ExtractIdle /\ Part000OnList
    /\ SyncOff
    /\ WaitOff
    /\ MoreOff

\* containers the diff would skip (TitleA, count unknown) or take (TitleB, 2 highlights)
LimitedContainers ==
    {[title |-> TitleA, count |-> UnknownCount], [title |-> TitleB, count |-> 2]}

\* list views longer than the test limit; the limit may be cached from an earlier call
InitLimited ==
    /\ view \in SeqsUpTo(LimitedContainers, MaxLimitedBooks)
    /\ bookHighlightCounts \in {<<>>, [k \in {bookKey(TitleA)} |-> 1]}
    /\ testMode \in BOOLEAN
    /\ cachedTestBookLimit \in {NoLimitCached, 0, TestLimit}
    /\ PlanIdle /\ ExtractIdle /\ Part000OnList
    /\ SyncOff
    /\ WaitOff
    /\ MoreOff

Next ==
    \/ \E nc \in NotionCountMaps, ok \in BOOLEAN : StartAuto(nc, ok)
    \/ \E ok \in BOOLEAN : StartProgress(ok)
    \/ Plan
    \/ ProcessBook
    \/ \E ok \in BOOLEAN : SaveCounts(ok)

Spec == Init /\ [][Next]_vars

SpecLimited == InitLimited /\ [][Next]_vars

\* containers of the second-pass specification: a count the diff takes, one it cannot read
ExtractContainers ==
    {[title |-> TitleA, count |-> 1], [title |-> TitleB, count |-> UnknownCount]}

\* what extractCurrentBook finds: nothing, or a book with its highlights
CurrentBooks == {NoBook} \cup {[highlights |-> n] : n \in 0..MaxExtracted}

\* either content script, freshly injected on a list view or on a single book
InitExtract ==
    /\ view \in SeqsUpTo(ExtractContainers, MaxExtractBooks)
    /\ bookHighlightCounts = <<>>
    /\ testMode \in BOOLEAN
    /\ cachedTestBookLimit = NoLimitCached
    /\ script \in {"part_000", "content.js"}
    /\ currentBook \in CurrentBooks
    /\ PlanIdle /\ ExtractIdle
    /\ SyncOff
    /\ WaitOff
    /\ MoreOff

NextExtract ==
    \/ \E nc \in NotionCountMaps, ok \in BOOLEAN : StartAuto(nc, ok)
    \/ \E ok \in BOOLEAN : StartProgress(ok)
    \/ Plan
    \/ ClickBook
    \/ \E ok \in BOOLEAN, sel \in BOOLEAN : WaitReturns(ok, sel)
    \/ \E n \in 0..MaxExtracted : Extract(n)
    \/ \E n \in 0..MaxExtracted : ExtractAgain(n)
    \/ \E ok \in BOOLEAN : SaveCounts(ok)

SpecExtract == InitExtract /\ [][NextExtract]_vars

\* the background worker with a request and a database
InitSync ==
    /\ PlanOff
    /\ WaitOff
    /\ dbProperties \in DbSchemas
    /\ pages \in InitialStores
    /\ books \in BookLists
    /\ pcSync = "idle"
    /\ bookIdx = 0 /\ page = 0 /\ existingHighlights = <<>> /\ newHighlightsList = <<>>
    /\ children = <<>> /\ batchI = 0 /\ callSite = "none" /\ inFlight = 0
    /\ newBooks = 0 /\ newHighlights = 0 /\ updatedBooks = 0 /\ outcome = "none"
    /\ netLog = <<>> /\ runNo = 0 /\ failures = 0 /\ pagesCreated = 0
    /\ blocksAppended = 0 /\ runFailed = FALSE /\ prevClean = FALSE
    /\ begun = <<>> /\ behind = FALSE
    /\ MoreOff

NextSync ==
    \/ SyncToNotion
    \/ BeginBook
    \/ Return
    \/ FindThrows
    \/ FindQueryFails
    \/ FindBookByTitle
    \/ \E ok \in BOOLEAN : GetExistingHighlights(ok)
    \/ \E ok \in BOOLEAN : CreateBookPage(ok)
    \/ AppendSend
    \/ \E ok \in BOOLEAN : AppendResp(ok)
    \/ AppendReturn
    \/ \E ok \in BOOLEAN : UpdateBookPage(ok)
    \/ EndBook

SpecSync == InitSync /\ [][NextSync]_vars

\* one direct call addHighlightBlocks(pageId, highlights) on an existing page
InitBatch ==
    /\ PlanOff
    /\ WaitOff
    /\ dbProperties = {PropHighlightCount}
    /\ pages = <<[title |-> TitleA, props |-> createProps(0), blocks |-> <<>>]>>
    /\ books = <<>>
    /\ \E n \in 0..MaxBatchInput : children = toChildren([k \in 1..n |-> BatchHighlight(k)])
    /\ pcSync = "append" /\ callSite = "direct" /\ batchI = 0 /\ page = 1
    /\ bookIdx = 0 /\ existingHighlights = <<>> /\ newHighlightsList = <<>> /\ inFlight = 0
    /\ newBooks = 0 /\ newHighlights = 0 /\ updatedBooks = 0 /\ outcome = "none"
    /\ netLog = <<>> /\ runNo = 0 /\ failures = 0 /\ pagesCreated = 0
    /\ blocksAppended = 0 /\ runFailed = FALSE /\ prevClean = FALSE
    /\ begun = <<>> /\ behind = FALSE
    /\ MoreOff

NextBatch ==
    \/ AppendSend
    \/ \E ok \in BOOLEAN : AppendResp(ok)
    \/ AppendReturn

SpecBatch == InitBatch /\ [][NextBatch]_vars

\* one waitForTitleUpdate call on a panel that still shows what it showed before the click
InitWait ==
    /\ PlanOff
    /\ SyncOff
    /\ expectedTitle \in ExpectedTitles
    /\ panelTitle \in PanelTitles
    /\ panelContents \in PanelContents
    /\ selected \in BOOLEAN
    /\ initialSignature = <<>> /\ wpc = "idle" /\ done = FALSE
    /\ result = "none" /\ observerOn = FALSE /\ intervalOn = FALSE /\ timerOn = FALSE
    /\ mutationPending = FALSE /\ intervalDue = FALSE /\ now = 0
    /\ resolutions = <<>> /\ changes = 0 /\ expectedVariants = {}
    /\ MoreOff

NextWait ==
    \/ CallWait
    \/ \E t \in PanelTitles, c \in PanelContents, sel \in BOOLEAN, notify \in BOOLEAN :
          DomChange(t, c, sel, notify)
    \/ MutationCallback
    \/ IntervalTick
    \/ TimeoutFire
    \/ Advance

SpecWait == InitWait /\ [][NextWait]_vars

\* what the event loop does for a pending call
EventLoop == MutationCallback \/ IntervalTick \/ TimeoutFire \/ Advance

\* the pages of the runs that are followed to their end: a title that matches, one
\* that does not; no highlight, one, another one
FairPanelTitles == {TitleAtomicHabits, TitleDune}
FairPanelContents == {<<>>, <<TextP>>, <<TextR>>}

InitWaitFair ==
    /\ InitWait
    /\ expectedTitle \in {<<>>, TitleAtomicLong}
    /\ panelTitle \in FairPanelTitles
    /\ panelContents \in FairPanelContents
    /\ MoreOff

NextWaitFair ==
    \/ CallWait
    \/ \E t \in FairPanelTitles, c \in FairPanelContents, sel \in BOOLEAN, notify \in BOOLEAN :
          DomChange(t, c, sel, notify)
    \/ MutationCallback
    \/ IntervalTick
    \/ TimeoutFire
    \/ Advance

\* time goes on and the event loop runs the callbacks that are due
SpecWaitFair ==
    /\ InitWaitFair /\ [][NextWaitFair]_vars
    /\ WF_vars(EventLoop)

----------------------------------------------------------------------------
(* Claims about the planner *)

\* the planning pass is over and the local cache is still the one it started from
Planned == pc = "process"

\* the list-view positions of the queued candidates
QueuedIdx == {booksToProcess[k].index : k \in 1..Len(booksToProcess)}

\* C1: outside limited mode, a container whose title is a key of the Notion counts is
\* queued by extractAllBooksAuto if and only if its live count is known (not -1) and
\* greater than its Notion count.
C1_RemotePresentQueuedIffGrown ==
    (Planned /\ entry = "auto" /\ testBookLimit = 0) =>
        \A i \in 1..Len(view) :
            view[i].title \in DOMAIN notionCounts =>
                (i \in QueuedIdx <=>
                    /\ view[i].count # UnknownCount
                    /\ view[i].count > notionCounts[view[i].title])

\* a run that queued a grown book and left out one whose count is unknown and one
\* whose count has not grown
C1_Witness ==
    /\ Planned /\ entry = "auto" /\ testBookLimit = 0
    /\ \E i, j, k \in 1..Len(view) :
          /\ {view[i].title, view[j].title, view[k].title} \subseteq DOMAIN notionCounts
          /\ view[i].count > notionCounts[view[i].title] /\ i \in QueuedIdx
          /\ view[j].count = UnknownCount /\ j \notin QueuedIdx
          /\ view[k].count = notionCounts[view[k].title] /\ k \notin QueuedIdx

\* C2: outside limited mode, extractAllBooksAuto queues every container whose title is
\* no key of the Notion counts, whatever its live count and whatever the local cache holds.
C2_RemoteAbsentAlwaysQueued ==
    (Planned /\ entry = "auto" /\ testBookLimit = 0) =>
        \A i \in 1..Len(view) :
            view[i].title \notin DOMAIN notionCounts => i \in QueuedIdx

\* no Notion counts, a non-empty cache that already holds the book's live count, and
\* a second book whose count is unknown: both are queued
C2_Witness ==
    /\ Planned /\ entry = "auto" /\ testBookLimit = 0
    /\ DOMAIN notionCounts = {} /\ DOMAIN bookHighlightCounts # {}
    /\ \E i, j \in 1..Len(view) :
          /\ bookKey(view[i].title) \in DOMAIN bookHighlightCounts
          /\ view[i].count = bookHighlightCounts[bookKey(view[i].title)]
          /\ i \in QueuedIdx
          /\ view[j].count = UnknownCount /\ j \in QueuedIdx

\* C3: isFirstSync holds exactly when the Notion counts and the local cache are both
\* empty, and then, outside limited mode, every container is queued whatever its count.
C3_FirstSyncQueuesAll ==
    /\ (pc \in {"plan", "process"} /\ entry = "auto") =>
          (isFirstSync <=> (DOMAIN notionCounts = {} /\ DOMAIN bookHighlightCounts = {}))
    /\ (Planned /\ testBookLimit = 0
          /\ DOMAIN notionCounts = {} /\ DOMAIN bookHighlightCounts = {}) =>
          /\ QueuedIdx = 1..Len(view)
          /\ Len(booksToProcess) = Len(view)

\* a first sync of three containers with unknown counts, all queued
C3_Witness ==
    /\ Planned /\ entry = "auto" /\ testBookLimit = 0 /\ isFirstSync
    /\ Len(view) = 3
    /\ \A i \in 1..Len(view) : view[i].count = UnknownCount
    /\ Len(booksToProcess) = 3

\* C4: in limited mode (a test limit k > 0, which is 5) the queue of either entry point
\* is the first min(k, n) containers of the list view, in order.
C4_LimitedModeTakesFirstK ==
    (pc \in {"plan", "process", "done"} => testBookLimit \in {0, 5})
    /\ ((pc \in {"process", "done"} /\ testBookLimit > 0) =>
          /\ Len(booksToProcess) = Min(testBookLimit, Len(view))
          /\ \A k \in 1..Len(booksToProcess) :
                /\ booksToProcess[k].index = k
                /\ booksToProcess[k].title = view[k].title
                /\ booksToProcess[k].highlightCount = view[k].count)

\* test mode on, six containers of which the diff alone would skip some: five are queued
C4_Witness ==
    /\ Planned /\ testMode /\ testBookLimit = 5
    /\ Len(view) = 6 /\ Len(booksToProcess) = 5
    /\ DOMAIN notionCounts # {}
    /\ \E i \in 1..5 : /\ view[i].title \in DOMAIN notionCounts
                       /\ view[i].count = UnknownCount

\* what the inputs (list view, Notion counts, local cache, limit) say about container i
ExpectedQueued(i) ==
    IF testBookLimit > 0 THEN i <= testBookLimit
    ELSE IF entry = "auto"
    THEN IF DOMAIN notionCounts = {}
         THEN TRUE
         ELSE IF view[i].title \in DOMAIN notionCounts
              THEN view[i].count # UnknownCount /\ view[i].count > notionCounts[view[i].title]
              ELSE TRUE
    ELSE \/ DOMAIN bookHighlightCounts = {}
         \/ view[i].count = UnknownCount
         \/ view[i].count # GetOr0(bookHighlightCounts, bookKey(view[i].title))

\* C5: the queue is an order-preserving subsequence of the list view (positions strictly
\* increasing, so no container twice) and it is determined by the inputs: it holds
\* exactly the containers the inputs select, each with its own title and count.
C5_QueueIsOrderedSubsequence ==
    Planned =>
        /\ \A k \in 1..Len(booksToProcess) : booksToProcess[k].index \in 1..Len(view)
        /\ \A j, k \in 1..Len(booksToProcess) :
              j < k => booksToProcess[j].index < booksToProcess[k].index
        /\ QueuedIdx = {i \in 1..Len(view) : ExpectedQueued(i)}
        /\ \A k \in 1..Len(booksToProcess) :
              /\ booksToProcess[k].title = view[booksToProcess[k].index].title
              /\ booksToProcess[k].highlightCount = view[booksToProcess[k].index].count

\* the first and the third container are queued, the second is skipped
C5_Witness ==
    /\ Planned /\ Len(view) = 3 /\ Len(booksToProcess) = 2
    /\ booksToProcess[1].index = 1 /\ booksToProcess[2].index = 3
    /\ booksToProcess[1].title # booksToProcess[2].title

----------------------------------------------------------------------------
(* Claims about the merge into Notion *)

\* syncBooksToNotion has filtered the current book against the page it found
Filtered ==
    \/ pcSync \in {"append", "appendWait", "update"} /\ callSite = "existingPage"
    \/ pcSync = "endBook" /\ outcome \in {"unchanged", "updated"}

\* no text read from the page contains the first 50 characters of h's text
NotOnPage(h) ==
    \A k \in 1..Len(existingHighlights) :
        \A at \in 0..(Len(existingHighlights[k]) - Min(50, Len(h.text))) :
            SubSeq(existingHighlights[k], at + 1, at + Min(50, Len(h.text)))
                # SubSeq(h.text, 1, Min(50, Len(h.text)))

\* the positions, in the extracted list, of the highlights that are not on the page
NovelIdx == {i \in 1..Len(books[bookIdx].highlights) : NotOnPage(books[bookIdx].highlights[i])}

\* the k-th smallest element of a set of numbers
Nth(S, k) == CHOOSE i \in S : Cardinality({j \in S : j < i}) = k - 1

\* C6: for a book whose page exists, the highlights forwarded to addHighlightBlocks are
\* exactly those whose first 50 characters no existing highlight text of the page
\* contains, in their extraction order.
C6_ForwardsExactlyTheNovel ==
    Filtered =>
        /\ Len(newHighlightsList) = Cardinality(NovelIdx)
        /\ \A k \in 1..Len(newHighlightsList) :
              newHighlightsList[k] = books[bookIdx].highlights[Nth(NovelIdx, k)]
        /\ (pcSync \in {"append", "appendWait", "update"} =>
              /\ Len(children) = Len(newHighlightsList)
              /\ \A k \in 1..Len(children) :
                    children[k] = [type |-> "quote", text |-> blockText(newHighlightsList[k])])

\* of two extracted highlights the second is forwarded and the first is held back,
\* although the page holds no block with exactly its text
C6_Witness ==
    /\ pcSync = "append" /\ callSite = "existingPage"
    /\ Len(books[bookIdx].highlights) = 2 /\ NovelIdx = {2}
    /\ Len(children) = 1
    /\ \A k \in 1..Len(existingHighlights) :
          existingHighlights[k] # books[bookIdx].highlights[1].text

\* C7: a second run with the same books, after a first run without per-book failure,
\* creates no page, appends no block and returns newBooks = updatedBooks = newHighlights = 0.
C7_SecondRunChangesNothing ==
    (pcSync = "done" /\ runNo >= 2 /\ prevClean) =>
        /\ newBooks = 0 /\ updatedBooks = 0 /\ newHighlights = 0
        /\ pagesCreated = 0 /\ blocksAppended = 0

\* C8: the database never holds two pages with the same title.
C8_OnePagePerTitle ==
    \A p, q \in 1..Len(pages) : pages[p].title = pages[q].title => p = q

\* C10: once appended highlights are followed by a completed updateBookPage, the count
\* the planner reads from the page is the number of existing plus appended highlights,
\* in every database that has one of the two count properties the planner reads.
C10_CountFollowsAppend ==
    (/\ pcSync = "endBook" /\ outcome = "updated"
     /\ dbProperties \cap {PropHighlightCount, PropHighlightCountJa} # {}) =>
        readHighlightCount(pages[page]) = Len(existingHighlights) + Len(newHighlightsList)

\* the value syncBooksToNotion returns
returnValue ==
    [success |-> TRUE, newBooks |-> newBooks, updatedBooks |-> updatedBooks,
     newHighlights |-> newHighlights, totalProcessed |-> Len(books)]

\* C11: a remote operation that fails while book i is committed does not end the run:
\* the loop goes on with book i + 1, every book of the request is started on in order,
\* and the call returns success with totalProcessed = the number of books; it never throws.
C11_FailureDoesNotAbortRun ==
    /\ pcSync # "thrown"
    /\ (pcSync = "book" /\ outcome = "failed") =>
          (Len(begun) > 0 /\ bookIdx = begun[Len(begun)] + 1)
    /\ pcSync = "done" =>
          /\ begun = [k \in 1..Len(books) |-> k]
          /\ returnValue.success /\ returnValue.totalProcessed = Len(begun)

\* the first of two books failed, the second was committed and the run returned
C11_Witness ==
    /\ pcSync = "done" /\ Len(books) = 2 /\ begun = <<1, 2>>
    /\ runFailed /\ outcome \in {"created", "updated", "unchanged"}

\* C12: a book whose commit fails while its Notion count was missing or below its
\* number of highlights is still behind after the failure, so the next plan takes it again.
C12_FailedBookStaysBehind ==
    (pcSync = "book" /\ outcome = "failed" /\ behind) =>
        countIsBehind(books[bookIdx - 1])

----------------------------------------------------------------------------
(* Claims about the batch committer *)

IsSend(e) == e.ev = "send"
IsDelay(e) == e.ev = "delay"

\* the blocks of the requests of s, one after the other
RECURSIVE Flatten(_)
Flatten(s) == IF Len(s) = 0 THEN <<>> ELSE Head(s).blocks \o Flatten(Tail(s))

\* C9: addHighlightBlocks with n highlights sends requests of at most 100 blocks, one
\* at a time, each after the answer to the one before and a delay; when it returns it
\* has sent ceil(n / 100) requests whose blocks, in order, are the n blocks, with a
\* delay between consecutive requests and none after the last.
C9_BatchesOfAtMost100 ==
    LET sends == SelectSeq(netLog, IsSend)
        delays == SelectSeq(netLog, IsDelay)
        n == Len(children)
    IN  /\ inFlight \in {0, 1}
        /\ \A k \in 1..Len(sends) : Len(sends[k].blocks) \in 1..100
        /\ \A j \in 1..Len(netLog) :
              /\ (netLog[j].ev = "send" /\ j > 1) =>
                    (j > 2 /\ netLog[j - 1].ev = "delay" /\ netLog[j - 2].ev = "ok")
              /\ netLog[j].ev = "delay" => (j > 1 /\ netLog[j - 1].ev = "ok")
        /\ pcSync = "returned" =>
              /\ Len(sends) = (n + 99) \div 100
              /\ Flatten(sends) = children
              /\ Len(delays) = IF Len(sends) = 0 THEN 0 ELSE Len(sends) - 1
              /\ Len(netLog) > 0 => netLog[Len(netLog)].ev = "ok"
              /\ pages[page].blocks = children

\* 250 highlights went out in three requests with two delays
C9_Witness ==
    /\ pcSync = "returned" /\ Len(children) = 250
    /\ Len(SelectSeq(netLog, IsSend)) = 3
    /\ Len(SelectSeq(netLog, IsDelay)) = 2

----------------------------------------------------------------------------
(* Claims about waitForTitleUpdate *)

\* the signature of the detail panel as the call reads it now
currentSignature == readHighlightSignature(panelContents)

\* the normalized panel title is a substring of, or contains, the variant
titleRelatedTo(variant) ==
    LET norm == normalizeTitle(panelTitle)
    IN  Includes(norm, variant) \/ Includes(variant, norm)

\* a step in which the call looks at the page: the initial check of a call with a
\* title, a mutation callback, or a tick of the interval
ObservationStep ==
    IF wpc = "idle" THEN wpc' # "idle" /\ Len(expectedTitle) > 0
    ELSE IF mutationPending /\ ~mutationPending' THEN TRUE
    ELSE intervalDue /\ ~intervalDue'

\* C13, as stated: the call resolves true only on a title match or on a fingerprint
\* that differs from the snapshot while the container is selected
C13_TrueOnlyOnSignal_AsStated ==
    result = "true" =>
        \/ matchesExpected(panelTitle, expectedVariants)
        \/ currentSignature # initialSignature /\ selected

\* C13, amended: the call resolves true only on a title match, on a fingerprint that
\* differs from the snapshot while the container is selected, or for an empty
\* expected title, which resolves true without looking at the page
C13_TrueOnlyOnSignal ==
    result = "true" =>
        \/ Len(expectedTitle) = 0
        \/ matchesExpected(panelTitle, expectedVariants)
        \/ currentSignature # initialSignature /\ selected

\* a wait that was pending resolved true on the fingerprint alone
C13_Witness ==
    /\ wpc = "resolved" /\ result = "true" /\ done
    /\ ~matchesExpected(panelTitle, expectedVariants)
    /\ currentSignature # initialSignature /\ selected /\ now > 0

\* C14, as stated: every observation that finds any fingerprint different from the
\* snapshot, with the container selected, resolves the call true
C14_FingerprintResolves_AsStated ==
    [][(ObservationStep /\ currentSignature # initialSignature' /\ selected)
          => result' = "true"]_vars

\* C14, amended: every observation that finds a fingerprint of at least one highlight
\* different from the snapshot, with the container selected, resolves the call true
C14_FingerprintResolves ==
    [][(ObservationStep /\ currentSignature # <<>>
          /\ currentSignature # initialSignature' /\ selected)
          => result' = "true"]_vars

\* a tick of the interval found another first highlight under a title that does not match
C14_Witness ==
    /\ wpc = "resolved" /\ result = "true" /\ done /\ ~mutationPending
    /\ panelTitle = TitleDune /\ selected
    /\ initialSignature = readHighlightSignature(<<TextP>>)
    /\ currentSignature = readHighlightSignature(<<TextR>>)

\* C15, as stated: every observation that finds the normalized panel title inside an
\* expected variant, or a variant inside it, resolves the call true
C15_TitleResolves_AsStated ==
    [][(ObservationStep /\ \E variant \in variantsOf(expectedTitle) :
                              titleRelatedTo(variant))
          => result' = "true"]_vars

\* C15, amended: every observation that finds a panel title whose normalized form is
\* inside a non-empty expected variant, or contains one, resolves the call true
C15_TitleResolves ==
    [][(ObservationStep /\ Len(panelTitle) > 0
          /\ \E variant \in variantsOf(expectedTitle) :
                Len(variant) > 0 /\ titleRelatedTo(variant))
          => result' = "true"]_vars

\* "Atomic Habits" appeared for "Atomic Habits: An Easy Way..." with the highlights
\* unchanged, and the pending call resolved true
C15_Witness ==
    /\ wpc = "resolved" /\ result = "true" /\ done
    /\ expectedTitle = TitleAtomicLong /\ panelTitle = TitleAtomicHabits
    /\ currentSignature = initialSignature

\* either signal of the claim, on the page as it is now
signalShown ==
    \/ matchesExpected(panelTitle, expectedVariants)
    \/ currentSignature # initialSignature /\ selected

\* C16, as stated: without a signal the call resolves false, at the timeout: never
\* false before it, never pending after it
C16_FalseAtTimeout_AsStated ==
    /\ [](result = "false" => now >= waitTimeout)
    /\ []((wpc = "resolved" /\ ~signalShown) => result = "false")
    /\ [](wpc = "pending" => (timerOn /\ now <= waitTimeout))
    /\ (wpc = "pending" ~> wpc = "resolved")

\* C16, amended: a call with a non-empty expected title resolves false without a
\* signal, at the timeout: never false before it, never pending after it
C16_FalseAtTimeout ==
    /\ [](result = "false" => now >= waitTimeout)
    /\ []((wpc = "resolved" /\ Len(expectedTitle) > 0 /\ ~signalShown) => result = "false")
    /\ [](wpc = "pending" => (timerOn /\ now <= waitTimeout))
    /\ (wpc = "pending" ~> wpc = "resolved")

\* the timeout resolved a call false whose page never showed a signal
C16_Witness ==
    /\ wpc = "resolved" /\ result = "false" /\ now = waitTimeout
    /\ ~signalShown /\ Len(expectedTitle) > 0

\* C17: the call resolves once, with the outcome of the first channel that fires;
\* the observer is then disconnected, the interval and the timeout are cleared, and
\* no later step changes the result
C17_ResolvesOnce ==
    /\ [](Len(resolutions) <= 1)
    /\ [](wpc = "resolved" =>
            /\ resolutions = <<result>>
            /\ ~observerOn /\ ~intervalOn /\ ~timerOn)
    /\ [](wpc # "resolved" => (result = "none" /\ resolutions = <<>>))
    /\ [][result # "none" => result' = result]_vars

\* the timeout and a tick of the interval were due together and the call resolved
C17_Witness ==
    /\ wpc = "resolved" /\ done /\ resolutions = <<result>>
    /\ now = waitTimeout /\ intervalDue

----------------------------------------------------------------------------
(* Claims about the second pass *)

\* the clicks on the candidate's container
clicksDone == {k \in 1..Len(trace) : trace[k] = "click"}

\* C18: per candidate the container is clicked once or twice and the detector runs at
\* most twice; a second click and a second detection come only after a detection
\* that failed, and there is no third
C18_RetryOnce ==
    /\ Cardinality(clicksDone) <= 2 /\ Cardinality(waitsDone) <= 2
    /\ pcBook # "idle" => (Len(trace) > 0 /\ trace[1] = "click")
    /\ \A k \in clicksDone : k > 1 => trace[k - 1] = "waitFalse"
    /\ \A k \in waitsDone : k > 1 /\ trace[k - 1] = "click"
    /\ pcBook = "wait" => Cardinality(clicksDone) = Cardinality(waitsDone) + 1

\* both detections failed, the container was selected all the same, highlights were read
C18_Witness ==
    /\ pcBook = "idle" /\ Len(trace) = 6
    /\ SubSeq(trace, 1, 5) = <<"click", "waitFalse", "click", "waitFalse", "selected">>
    /\ trace[Len(trace)] = "extract"

\* C19: in both content scripts highlights are read and added only after a detection
\* that succeeded or with the container selected; otherwise the candidate is skipped
\* and the loop goes on
C19_ExtractOnlyWhenReady ==
    /\ \A k \in 1..Len(trace) :
          trace[k] = "extract" =>
              \E j \in 1..(k - 1) : trace[j] \in {"waitTrue", "selected"}
    /\ (Len(trace) > 0 /\ trace[Len(trace)] = "notSelected") => pcBook = "idle"

\* the settings call limited mode off and the run did not plan with a limit
OutsideLimitedMode == ~testMode /\ ~testModeActive

\* C20: outside limited mode no returned book has zero highlights; in limited mode a
\* candidate whose extraction found none is returned all the same
C20_NoEmptyBook ==
    /\ (pc = "done" /\ script = "part_000" /\ OutsideLimitedMode) =>
          \A k \in 1..Len(allBooks) : allBooks[k].highlights > 0
    /\ (script = "part_000" /\ testModeActive /\ pcBook = "idle"
          /\ Len(trace) > 0 /\ trace[Len(trace)] = "extract") =>
          (Len(allBooks) > 0 /\ allBooks[Len(allBooks)].index = candidate.index)

----------------------------------------------------------------------------
(* Claims about the local cache of highlight counts *)

\* longest list view of the cache specification
MaxCacheBooks == 2

\* "a-b": another title whose key is a_b
TitleC == <<97, 45, 98>>

\* containers of the cache specification: two of the three titles share a key
CacheContainers == [title : Titles \cup {TitleC}, count : LiveCounts]

\* a freshly injected content script on a list view, with the cache of earlier runs
InitCache ==
    /\ view \in SeqsUpTo(CacheContainers, MaxCacheBooks)
    /\ bookHighlightCounts \in LocalCaches
    /\ testMode \in BOOLEAN
    /\ cachedTestBookLimit = NoLimitCached
    /\ PlanIdle /\ ExtractIdle /\ Part000OnList
    /\ SyncOff
    /\ WaitOff
    /\ MoreOff

SpecCache == InitCache /\ [][Next]_vars

\* C25: after a run on a non-empty list view, with or without Notion counts, every key
\* the cache held before the run is still in the cache
C25_CacheKeysKept ==
    [][(pc = "process" /\ pc' = "done") =>
          DOMAIN bookHighlightCounts \subseteq DOMAIN bookHighlightCounts']_vars

\* at most 50 code units, each of the key's character class or an underscore
IsNormalizedKey(k) ==
    /\ Len(k) <= bookKeyLen
    /\ \A j \in 1..Len(k) : IsKeyChar(k[j]) \/ k[j] = 95

\* C26: every entry of the cache has a normalized book key as its key and a positive
\* count as its value
C26_CacheEntriesNormalized ==
    \A k \in DOMAIN bookHighlightCounts :
        IsNormalizedKey(k) /\ bookHighlightCounts[k] > 0

\* C27: the cache a run saves maps the key of every container with a positive live count
\* to that count, and a container with an unknown or zero count adds no entry: every
\* key the save adds is the key of a container with a positive count
C27_SavedCacheHoldsLiveCounts ==
    [][SaveCounts(TRUE) =>
          /\ \A i \in 1..Len(view) :
                view[i].count > 0 =>
                    /\ bookKey(view[i].title) \in DOMAIN bookHighlightCounts'
                    /\ bookHighlightCounts'[bookKey(view[i].title)] = view[i].count
          /\ \A k \in (DOMAIN bookHighlightCounts') \ (DOMAIN bookHighlightCounts) :
                \E i \in 1..Len(view) :
                    bookKey(view[i].title) = k /\ view[i].count > 0]_vars

----------------------------------------------------------------------------
(* Claims about the string normalizations *)

\* longest short title of the normalization specification
MaxTitleLen == 3

\* a letter, a space, a hyphen (both removed by normalizeTitle, both replaced in the
\* key) and an underscore
TitleUnits == {97, 32, 45, 95}

\* short titles, and titles that reach beyond the two cuts at 30 and at 50
IdemTitles ==
    SeqsUpTo(TitleUnits, MaxTitleLen)
        \cup {p \o Rep(97, n) \o q : p \in {<<>>, <<32>>, <<45, 32>>},
                                     n \in {normLen - 1, normLen, bookKeyLen},
                                     q \in {<<>>, <<32, 98>>}}

InitIdem ==
    /\ arg \in IdemTitles
    /\ fn = "none" /\ calls = 0 /\ once = <<>> /\ twice = <<>>
    /\ PlanOff /\ SyncOff /\ WaitOff
    /\ WindowOff /\ MsgOff /\ RaceOff /\ ListOff /\ progress = <<>>

\* normalizeTitle applied to the title, then to its own result
ApplyNormalizeTitle ==
    /\ fn \in {"none", "normalizeTitle"} /\ calls < 2
    /\ fn' = "normalizeTitle"
    /\ calls' = calls + 1
    /\ IF calls = 0
       THEN once' = normalizeTitle(arg) /\ UNCHANGED twice
       ELSE twice' = normalizeTitle(once) /\ UNCHANGED once
    /\ UNCHANGED <<arg, planVars, syncVars, waitVars, windowVars, msgVars, raceVars, listVars, progress>>

\* the key derivation applied to the title, then to its own result
ApplyBookKey ==
    /\ fn \in {"none", "bookKey"} /\ calls < 2
    /\ fn' = "bookKey"
    /\ calls' = calls + 1
    /\ IF calls = 0
       THEN once' = bookKey(arg) /\ UNCHANGED twice
       ELSE twice' = bookKey(once) /\ UNCHANGED once
    /\ UNCHANGED <<arg, planVars, syncVars, waitVars, windowVars, msgVars, raceVars, listVars, progress>>

NextIdem == ApplyNormalizeTitle \/ ApplyBookKey

SpecIdem == InitIdem /\ [][NextIdem]_vars

\* C30: normalizeTitle(normalizeTitle(t)) = normalizeTitle(t), and the key derivation
\* applied to a key it produced returns that key
C30_Idempotent == calls = 2 => twice = once

\* normalizeTitle has removed characters from a long title and cut the rest at 30, and
\* was applied to that result again
C30_Witness ==
    /\ calls = 2 /\ fn = "normalizeTitle"
    /\ Len(arg) > bookKeyLen
    /\ Len(once) = normLen
    /\ once # Substring0(arg, normLen)

----------------------------------------------------------------------------
(* Claims about the candidate queue *)

\* the page re-renders its list while the second pass runs and the first container goes
\* away, so that every other container moves up; the queue holds the objects the first
\* pass built
ViewChanges ==
    /\ pc = "process"
    /\ Len(view) > 0
    /\ view' = Tail(view)
    /\ UNCHANGED <<bookHighlightCounts, testMode, cachedTestBookLimit, pc, entry,
                   notionCounts, useNotionCounts, savedCounts, isFirstSync, testBookLimit,
                   booksToProcess, newCounts, processedBooks, extractVars>>
    /\ UNCHANGED <<syncVars, waitVars, moreVars>>

\* part_000 on a list view
InitLive ==
    /\ view \in SeqsUpTo(ExtractContainers, MaxExtractBooks) \ {<<>>}
    /\ bookHighlightCounts = <<>>
    /\ testMode \in BOOLEAN
    /\ cachedTestBookLimit = NoLimitCached
    /\ PlanIdle /\ ExtractIdle /\ Part000OnList
    /\ SyncOff
    /\ WaitOff
    /\ MoreOff

NextLive ==
    \/ NextExtract
    \/ ViewChanges

SpecLive == InitLive /\ [][NextLive]_vars

\* C28: once the planning pass has built the queue, no step of the run changes its
\* contents or order; the second pass goes through it one candidate at a time and never
\* beyond its end, whatever the list view shows meanwhile
C28_QueueFixed ==
    [][pc = "process" =>
          /\ booksToProcess' = booksToProcess
          /\ processedBooks' \in {processedBooks, processedBooks + 1}
          /\ processedBooks' <= Len(booksToProcess)]_vars

\* both candidates of the queue have been processed although the list view has lost a
\* container since the planning pass
C28_Witness ==
    /\ pc = "done" /\ entry # "none"
    /\ Len(booksToProcess) = 2 /\ processedBooks = 2
    /\ Len(view) < 2

----------------------------------------------------------------------------
(* The sync window: startSync, finishSync and the run they drive *)

\* longest list view of the run specification
MaxRunBooks == 2
\* calls of startSync in one behaviour
MaxStarts == 2

KindleTab == 1
logLimit == 50

\* addLog: the entry goes to the front, the list keeps 50 entries
addLog(l, type) == Substring0(<<type>> \o l, logLimit)

\* several addLog calls in a row, first to last
RECURSIVE addLogs(_, _)
addLogs(l, types) ==
    IF types = <<>> THEN l ELSE addLogs(addLog(l, Head(types)), Tail(types))

\* the book objects of response.books: the title of the container and the highlights found
toBooks(list) ==
    [k \in 1..Len(list) |->
        [title |-> IF list[k].index \in 1..Len(view) THEN view[list[k].index].title
                   ELSE <<>>,
         highlights |-> SubSeq(<<HlP, HlQ, HlR>>, 1, list[k].highlights)]]

planKeeps == <<view, bookHighlightCounts, testMode, cachedTestBookLimit, entry,
               notionCounts, useNotionCounts, savedCounts, isFirstSync, testBookLimit,
               booksToProcess, newCounts, processedBooks, extractVars>>

workerKeeps == <<dbProperties, pages, bookIdx, page, existingHighlights,
                 newHighlightsList, children, batchI, callSite, inFlight, newBooks,
                 newHighlights, updatedBooks, outcome, netLog, runNo, failures,
                 pagesCreated, blocksAppended, runFailed, prevClean, begun, behind>>

\* the extraction has returned or its tab is gone: the locals of the call are dropped,
\* the storage and the page stay
ScriptReturned ==
    /\ entry' = "none"
    /\ notionCounts' = <<>> /\ useNotionCounts' = FALSE /\ savedCounts' = <<>>
    /\ isFirstSync' = FALSE /\ testBookLimit' = 0 /\ booksToProcess' = <<>>
    /\ newCounts' = <<>> /\ processedBooks' = 0
    /\ allBooks' = <<>> /\ pcBook' = "idle" /\ trace' = <<>>
    /\ UNCHANGED <<view, bookHighlightCounts, testMode, cachedTestBookLimit, script,
                   currentBook>>

\* syncBooksToNotion has answered or the worker was stopped: the locals of the call and
\* the record of its requests are dropped, the database stays
WorkerReturned ==
    /\ pcSync' = "off" /\ books' = <<>>
    /\ bookIdx' = 0 /\ page' = 0 /\ existingHighlights' = <<>> /\ newHighlightsList' = <<>>
    /\ children' = <<>> /\ batchI' = 0 /\ callSite' = "none" /\ inFlight' = 0
    /\ newBooks' = 0 /\ newHighlights' = 0 /\ updatedBooks' = 0 /\ outcome' = "none"
    /\ netLog' = <<>> /\ pagesCreated' = 0 /\ blocksAppended' = 0
    /\ runFailed' = FALSE /\ prevClean' = FALSE /\ begun' = <<>> /\ behind' = FALSE
    /\ UNCHANGED <<storeVars, runNo, failures>>

\* faulty variant: the flag is set before the settings are looked at
StartSyncFlagFirst ==
    /\ step = "idle" /\ starts < MaxStarts
    /\ starts' = starts + 1
    /\ isSyncing' = TRUE
    /\ IF ~notionConfigured
       THEN /\ logList' = addLog(logList, "error")
            /\ UNCHANGED step
       ELSE /\ logList' = <<>>
            /\ step' = "tab"
    /\ UNCHANGED <<notionConfigured, kindleTabId, finishLeft, tabOpen, reads, windowCounts>>
    /\ UNCHANGED <<planVars, syncVars, waitVars, idemVars, listVars, raceVars, msgVars, progress>>

\* startSync up to its first await inside the try block: the settings check, the flag,
\* the cleared log
StartSync ==
    /\ step = "idle" /\ starts < MaxStarts
    /\ starts' = starts + 1
    /\ IF ~notionConfigured
       THEN /\ logList' = addLog(logList, "error")
            /\ UNCHANGED <<isSyncing, step>>
       ELSE /\ isSyncing' = TRUE
            /\ logList' = <<>>
            /\ step' = "tab"
    /\ UNCHANGED <<notionConfigured, kindleTabId, finishLeft, tabOpen, reads, windowCounts>>
    /\ UNCHANGED <<planVars, syncVars, waitVars, idemVars, listVars, raceVars, msgVars, progress>>

\* the options page saves a token and a database id while no run is under way
SettingsEntered ==
    /\ step = "idle" /\ ~notionConfigured
    /\ notionConfigured' = TRUE
    /\ UNCHANGED <<isSyncing, kindleTabId, step, finishLeft, logList, tabOpen, starts,
                   reads, windowCounts>>
    /\ UNCHANGED <<planVars, syncVars, waitVars, idemVars, listVars, raceVars, msgVars, progress>>

\* the options page clears the token or the database id during a run, before the
\* worker reads them for the counts or for the commit
SettingsCleared ==
    /\ isSyncing /\ notionConfigured
    /\ IF step = "commit" THEN pcSync = "idle" ELSE step = "counts"
    /\ notionConfigured' = FALSE
    /\ UNCHANGED <<isSyncing, kindleTabId, step, finishLeft, logList, tabOpen, starts,
                   reads, windowCounts>>
    /\ UNCHANGED <<planVars, syncVars, waitVars, idemVars, listVars, raceVars, msgVars, progress>>

\* chrome.tabs.create resolves, or rejects into the catch and finally of startSync
CreateTab(ok) ==
    /\ step = "tab"
    /\ IF ok
       THEN /\ kindleTabId' = KindleTab
            /\ tabOpen' = TRUE
            /\ logList' = addLogs(logList, <<"success", "info">>)
            /\ step' = "load"
            /\ UNCHANGED finishLeft
       ELSE /\ logList' = addLog(logList, "error")
            /\ step' = "finish"
            /\ finishLeft' = 1
            /\ UNCHANGED <<kindleTabId, tabOpen>>
    /\ UNCHANGED <<notionConfigured, isSyncing, starts, reads, windowCounts>>
    /\ UNCHANGED <<planVars, syncVars, waitVars, idemVars, listVars, raceVars, msgVars, progress>>

\* waitForTabLoad resolves: the tab is complete, or chrome.tabs.get failed because the
\* tab was closed; then the 10 s for rendering
TabLoad(closed) ==
    /\ step = "load"
    /\ tabOpen' = ~closed
    /\ logList' = addLogs(logList, <<"success", "info", "info">>)
    /\ step' = "inject"
    /\ UNCHANGED <<notionConfigured, isSyncing, kindleTabId, finishLeft, starts, reads,
                   windowCounts>>
    /\ UNCHANGED <<planVars, syncVars, waitVars, idemVars, listVars, raceVars, msgVars, progress>>

\* chrome.scripting.executeScript: the script listens, or the call rejects and startSync
\* returns through finishSync (and through the finally once more)
Inject(ok) ==
    /\ step = "inject"
    /\ ok => tabOpen
    /\ IF ok
       THEN /\ pc' = "idle"
            /\ logList' = addLogs(logList, <<"success", "info">>)
            /\ step' = "count"
            /\ UNCHANGED finishLeft
       ELSE /\ logList' = addLog(logList, "error")
            /\ step' = "finish"
            /\ finishLeft' = 2
            /\ UNCHANGED pc
    /\ UNCHANGED <<notionConfigured, isSyncing, kindleTabId, tabOpen, starts, reads,
                   windowCounts>>
    /\ UNCHANGED <<planKeeps, syncVars, waitVars, idemVars, listVars, raceVars, msgVars, progress>>

\* the getBookCount message: the script answers {count: bookContainers.length}, or the
\* message fails
GetBookCount(ok) ==
    /\ step = "count"
    /\ IF ~ok
       THEN /\ logList' = addLog(logList, "error")
            /\ step' = "finish" /\ finishLeft' = 2
       ELSE IF Len(view) = 0
       THEN /\ logList' = addLogs(logList, <<"info", "info", "warning", "info">>)
            /\ step' = "finish" /\ finishLeft' = 2
       ELSE /\ logList' = addLogs(logList, <<"info", "info", "info">>)
            /\ step' = "counts"
            /\ UNCHANGED finishLeft
    /\ UNCHANGED <<notionConfigured, isSyncing, kindleTabId, tabOpen, starts, reads,
                   windowCounts>>
    /\ UNCHANGED <<planVars, syncVars, waitVars, idemVars, listVars, raceVars, msgVars, progress>>

\* the getNotionHighlightCounts message. The worker throws when the settings are missing,
\* else it queries the database; r = "counts": the window gets {counts}, "error": the
\* query failed and the window gets {error}, "reject": the message itself failed
GetNotionCounts(r) ==
    /\ step = "counts"
    /\ reads' = IF notionConfigured /\ r # "reject" THEN reads + 1 ELSE reads
    /\ IF r = "reject"
       THEN /\ windowCounts' = <<>>
            /\ logList' = addLogs(logList, <<"warning", "info", "info">>)
       ELSE IF r = "counts" /\ notionConfigured
       THEN /\ windowCounts' = getAllBooksWithHighlightCount(1, <<>>)
            /\ logList' = addLogs(logList, <<"success", "info">>)
       ELSE /\ windowCounts' = <<>>
            /\ logList' = addLog(logList, "info")
    /\ step' = "extract"
    /\ UNCHANGED <<notionConfigured, isSyncing, kindleTabId, finishLeft, tabOpen, starts>>
    /\ UNCHANGED <<planVars, syncVars, waitVars, idemVars, listVars, raceVars, msgVars, progress>>

\* the content script receives extractAllBooksAuto with the counts the window holds
HandleExtract(ok) ==
    /\ step = "extract" /\ tabOpen
    /\ StartAuto(windowCounts, ok)

\* an exception inside the loop body of the second pass: the catch logs it and the loop
\* goes on with the next candidate
BodyThrows ==
    /\ pc = "process" /\ pcBook \in {"wait", "delay", "delay2"}
    /\ trace' = Append(trace, "error")
    /\ pcBook' = "idle"
    /\ UNCHANGED <<bodyKeeps, allBooks>>
    /\ UNCHANGED <<syncVars, waitVars, moreVars>>

\* the script answers {books}: none extracted ends the run, else syncToNotion is sent
ExtractResponse ==
    /\ step = "extract" /\ pc = "done"
    /\ pc' = "off"
    /\ ScriptReturned
    /\ progress' = <<>>
    /\ IF allBooks = <<>>
       THEN /\ logList' = addLogs(logList, <<"info", "warning", "info">>)
            /\ step' = "finish" /\ finishLeft' = 2
            /\ UNCHANGED <<books, pcSync>>
       ELSE /\ logList' = addLogs(logList, <<"info", "success", "info", "info">>)
            /\ books' = toBooks(allBooks)
            /\ pcSync' = "idle"
            /\ step' = "commit"
            /\ UNCHANGED finishLeft
    /\ UNCHANGED <<notionConfigured, isSyncing, kindleTabId, tabOpen, starts, reads,
                   windowCounts>>
    /\ UNCHANGED <<workerKeeps, waitVars, idemVars, listVars, raceVars, msgVars>>

\* the extraction message fails (the tab went away) or the script answers {error}
ExtractFails ==
    /\ step = "extract" /\ pc \in {"idle", "plan", "process"}
    /\ pc' = "off"
    /\ ScriptReturned
    /\ progress' = <<>>
    /\ logList' = addLogs(logList, <<"info", "error">>)
    /\ step' = "finish" /\ finishLeft' = 2
    /\ UNCHANGED <<notionConfigured, isSyncing, kindleTabId, tabOpen, starts, reads,
                   windowCounts>>
    /\ UNCHANGED <<syncVars, waitVars, idemVars, listVars, raceVars, msgVars>>

\* the worker receives syncToNotion: syncBooksToNotion throws when the settings are
\* missing, else it starts on the books
HandleSyncToNotion ==
    /\ step = "commit" /\ pcSync = "idle"
    /\ IF notionConfigured
       THEN SyncToNotion
       ELSE /\ pcSync' = "refused"
            /\ UNCHANGED <<workerKeeps, books>>
            /\ UNCHANGED <<planVars, waitVars, moreVars>>

\* the worker answers: the result of the loop, or {error}, which startSync throws
SyncResponse ==
    /\ step = "commit" /\ pcSync \in {"done", "refused", "thrown"}
    /\ IF pcSync = "done"
       THEN /\ logList' = addLog(logList, "success")
            /\ step' = "stats"
            /\ UNCHANGED finishLeft
       ELSE /\ logList' = addLog(logList, "error")
            /\ step' = "finish" /\ finishLeft' = 1
    /\ WorkerReturned
    /\ progress' = <<>>
    /\ UNCHANGED <<notionConfigured, isSyncing, kindleTabId, tabOpen, starts, reads,
                   windowCounts>>
    /\ UNCHANGED <<planVars, waitVars, idemVars, listVars, raceVars, msgVars>>

\* the syncToNotion message fails: the worker was stopped before it answered
SyncRejects ==
    /\ step = "commit" /\ pcSync \notin {"done", "refused", "thrown", "off"}
    /\ WorkerReturned
    /\ progress' = <<>>
    /\ logList' = addLog(logList, "error")
    /\ step' = "finish" /\ finishLeft' = 1
    /\ UNCHANGED <<notionConfigured, isSyncing, kindleTabId, tabOpen, starts, reads,
                   windowCounts>>
    /\ UNCHANGED <<planVars, waitVars, idemVars, listVars, raceVars, msgVars>>

\* the statistics are written to chrome.storage.local; a failure goes to the catch
SaveStats(ok) ==
    /\ step = "stats"
    /\ logList' = IF ok THEN logList ELSE addLog(logList, "error")
    /\ step' = "finish" /\ finishLeft' = 1
    /\ UNCHANGED <<notionConfigured, isSyncing, kindleTabId, tabOpen, starts, reads,
                   windowCounts>>
    /\ UNCHANGED <<planVars, syncVars, waitVars, idemVars, listVars, raceVars, msgVars, progress>>

\* finishSync up to its await: the flag is cleared, the button enabled
FinishBegin ==
    /\ step = "finish"
    /\ isSyncing' = FALSE
    /\ step' = "finishing"
    /\ UNCHANGED <<notionConfigured, kindleTabId, finishLeft, logList, tabOpen, starts,
                   reads, windowCounts>>
    /\ UNCHANGED <<planVars, syncVars, waitVars, idemVars, listVars, raceVars, msgVars, progress>>

\* finishSync after chrome.storage.sync.get(['autoCloseWindow']): the tab is removed if
\* the setting says so, kindleTabId becomes null. When the read fails, the call made
\* before a return throws into the catch of startSync, the call of the finally throws
\* out of startSync
FinishEnd(ok, autoClose) ==
    /\ step = "finishing"
    /\ kindleTabId' = IF ok THEN NoTab ELSE kindleTabId
    /\ tabOpen' = IF ok /\ autoClose /\ kindleTabId # NoTab THEN FALSE ELSE tabOpen
    /\ logList' = IF ~ok /\ finishLeft = 2 THEN addLog(logList, "error") ELSE logList
    /\ finishLeft' = finishLeft - 1
    /\ step' = IF finishLeft = 1 THEN "ended" ELSE "finish"
    /\ UNCHANGED <<notionConfigured, isSyncing, starts, reads, windowCounts>>
    /\ UNCHANGED <<planVars, syncVars, waitVars, idemVars, listVars, raceVars, msgVars, progress>>

\* the window has just been opened; the Kindle account shows a list view, the database
\* holds one page of an earlier sync
InitRun ==
    /\ view \in SeqsUpTo(ExtractContainers, MaxRunBooks)
    /\ bookHighlightCounts = <<>> /\ testMode = FALSE
    /\ cachedTestBookLimit = NoLimitCached /\ pc = "off" /\ entry = "none"
    /\ notionCounts = <<>> /\ useNotionCounts = FALSE /\ savedCounts = <<>>
    /\ isFirstSync = FALSE /\ testBookLimit = 0 /\ booksToProcess = <<>>
    /\ newCounts = <<>> /\ processedBooks = 0
    /\ ExtractIdle /\ Part000OnList
    /\ dbProperties = {PropHighlightCount}
    /\ pages = <<[title |-> TitleA, props |-> createProps(1), blocks |-> <<toBlock(HlP)>>]>>
    /\ books = <<>> /\ pcSync = "off"
    /\ bookIdx = 0 /\ page = 0 /\ existingHighlights = <<>> /\ newHighlightsList = <<>>
    /\ children = <<>> /\ batchI = 0 /\ callSite = "none" /\ inFlight = 0
    /\ newBooks = 0 /\ newHighlights = 0 /\ updatedBooks = 0 /\ outcome = "none"
    /\ netLog = <<>> /\ runNo = 0 /\ failures = 0 /\ pagesCreated = 0
    /\ blocksAppended = 0 /\ runFailed = FALSE /\ prevClean = FALSE
    /\ begun = <<>> /\ behind = FALSE
    /\ WaitOff /\ IdemOff /\ MsgOff /\ RaceOff /\ ListOff
    /\ notionConfigured \in BOOLEAN /\ isSyncing = FALSE /\ kindleTabId = NoTab
    /\ step = "idle" /\ finishLeft = 0 /\ logList = <<>> /\ tabOpen = FALSE
    /\ starts = 0 /\ reads = 0 /\ windowCounts = <<>>
    /\ progress = <<>>

\* the steps of the content script during the extraction
ScriptStep ==
    \/ Plan
    \/ ClickBook
    \/ \E ok \in BOOLEAN, sel \in BOOLEAN : WaitReturns(ok, sel)
    \/ \E n \in 0..MaxExtracted : Extract(n)
    \/ \E n \in 0..MaxExtracted : ExtractAgain(n)
    \/ BodyThrows
    \/ \E ok \in BOOLEAN : SaveCounts(ok)

\* the steps of the worker during syncBooksToNotion
WorkerStep ==
    \/ BeginBook
    \/ Return
    \/ FindThrows
    \/ FindQueryFails
    \/ FindBookByTitle
    \/ \E ok \in BOOLEAN : GetExistingHighlights(ok)
    \/ \E ok \in BOOLEAN : CreateBookPage(ok)
    \/ AppendSend
    \/ \E ok \in BOOLEAN : AppendResp(ok)
    \/ AppendReturn
    \/ \E ok \in BOOLEAN : UpdateBookPage(ok)
    \/ EndBook

\* what happens once startSync has been called, up to the end of the run
RunStep ==
    \/ \E ok \in BOOLEAN : CreateTab(ok)
    \/ \E closed \in BOOLEAN : TabLoad(closed)
    \/ \E ok \in BOOLEAN : Inject(ok)
    \/ \E ok \in BOOLEAN : GetBookCount(ok)
    \/ \E r \in {"counts", "error", "reject"} : GetNotionCounts(r)
    \/ \E ok \in BOOLEAN : HandleExtract(ok)
    \/ ScriptStep
    \/ ExtractResponse
    \/ ExtractFails
    \/ HandleSyncToNotion
    \/ WorkerStep
    \/ SyncResponse
    \/ SyncRejects
    \/ \E ok \in BOOLEAN : SaveStats(ok)
    \/ FinishBegin
    \/ \E ok \in BOOLEAN, autoClose \in BOOLEAN : FinishEnd(ok, autoClose)

NextRun ==
    \/ StartSync
    \/ SettingsEntered
    \/ SettingsCleared
    \/ RunStep

SpecRun == InitRun /\ [][NextRun]_vars

----------------------------------------------------------------------------
(* Claims about the run of the sync window *)

\* the iteration of the worker's loop for book k has begun
bookBegun(k) == k < bookIdx \/ (k = bookIdx /\ pcSync # "book")

committed(k) == runNo > 0 /\ (pcSync = "off" \/ bookIdx > k)

\* position in allBooks of the book pushed for the candidate the loop has just handled
pushedAs == {k \in 1..Len(allBooks) : allBooks[k].index = candidate.index}

\* C22: when the second pass selects candidate N+1, the commit of candidate N to Notion
\* has completed (with success or a logged failure)
C22_CommitBeforeNextSelection ==
    [][(pc = "process" /\ processedBooks >= 1 /\ processedBooks' = processedBooks + 1
          /\ pushedAs # {})
          => \A k \in pushedAs : committed(k)]_vars

\* the error entries of the log list
errorsIn(l) == {k \in 1..Len(l) : l[k] = "error"}

\* C24: without token or database id startSync logs one error and returns: no tab is
\* created, isSyncing stays false; syncBooksToNotion and getNotionHighlightCounts fail
\* before any request to Notion is made
C24_NoPartialRunUnconfigured ==
    [][/\ (starts' = starts + 1 /\ ~notionConfigured) =>
             /\ ~isSyncing' /\ kindleTabId' = NoTab /\ ~tabOpen' /\ step' = "idle"
             /\ Cardinality(errorsIn(logList')) = Cardinality(errorsIn(logList)) + 1
             /\ Len(logList') = Len(logList) + 1
       /\ (step = "commit" /\ pcSync = "idle" /\ pcSync' \notin {"idle", "off"}
             /\ ~notionConfigured) =>
             /\ pcSync' = "refused"
             /\ UNCHANGED <<storeVars, callVars, failures, pagesCreated, blocksAppended,
                            begun, progress>>
       /\ (step = "counts" /\ step' # "counts" /\ ~notionConfigured) =>
             /\ reads' = reads
             /\ windowCounts' = <<>>]_vars

\* startSync returned at the settings check, the settings were entered, and in the run
\* that followed they were cleared again: both calls of the worker have refused
C24_Witness ==
    /\ starts = 2 /\ isSyncing
    /\ pcSync = "refused" /\ reads = 0
    /\ tabOpen

\* what the run does by itself is done eventually: awaited calls settle, timers fire
SpecRunFair == InitRun /\ [][NextRun]_vars /\ WF_vars(RunStep)

\* C23: every run startSync has begun reaches its end: finishSync has run, isSyncing
\* is false and kindleTabId is null
C23_RunTerminates ==
    isSyncing ~> (step = "ended" /\ ~isSyncing /\ kindleTabId = NoTab)

----------------------------------------------------------------------------
(* Runtime messages: the log messages on their way to the sync window *)

\* syncLog messages sent in one behaviour
MaxLogs == 2

\* sendLog('warning', 'Title not updated, skipping: ...') and sendLog('error', 'Error: ...')
\* of the second pass, for candidate k
skipLog(k) == [action |-> "syncLog", type |-> "warning", message |-> <<"skipping", k>>]
errorLog(k) == [action |-> "syncLog", type |-> "error", message |-> <<"Error", k>>]

\* broadcastLog('error', ...) of the worker's catch, for book k
commitErrorLog(k) == [action |-> "syncLog", type |-> "error", message |-> <<"commit", k>>]

\* the content script calls chrome.runtime.sendMessage: the message goes to the listeners
\* of the other extension contexts, the worker and the sync window
ContentSendLog(m) ==
    /\ m \notin sentLogs /\ Cardinality(sentLogs) < MaxLogs
    /\ sentLogs' = sentLogs \cup {m}
    /\ toWorker' = Append(toWorker, m)
    /\ toWindow' = Append(toWindow, m)
    /\ UNCHANGED <<planVars, syncVars, waitVars, idemVars, listVars, raceVars, windowVars, progress>>

\* the worker calls chrome.runtime.sendMessage: the message goes to the sync window
WorkerBroadcastLog(m) ==
    /\ m \notin sentLogs /\ Cardinality(sentLogs) < MaxLogs
    /\ sentLogs' = sentLogs \cup {m}
    /\ toWindow' = Append(toWindow, m)
    /\ UNCHANGED <<toWorker, planVars, syncVars, waitVars, idemVars, listVars, raceVars, windowVars, progress>>

\* handleMessage of the worker, case 'syncProgress' / 'syncLog': the request is sent on
\* with chrome.runtime.sendMessage(request)
WorkerHandleMessage ==
    /\ toWorker # <<>>
    /\ toWorker' = Tail(toWorker)
    /\ toWindow' = Append(toWindow, Head(toWorker))
    /\ UNCHANGED sentLogs
    /\ UNCHANGED <<planVars, syncVars, waitVars, idemVars, listVars, raceVars, windowVars, progress>>

\* the entry addLog makes for a message
logEntry(m) == [type |-> m.type, message |-> m.message]

\* the listener of the sync window, case 'syncLog': addLog(message.type, message.message)
WindowOnMessage ==
    /\ toWindow # <<>>
    /\ toWindow' = Tail(toWindow)
    /\ logList' = addLog(logList, logEntry(Head(toWindow)))
    /\ UNCHANGED <<toWorker, sentLogs>>
    /\ UNCHANGED <<notionConfigured, isSyncing, kindleTabId, step, finishLeft, tabOpen,
                   starts, reads, windowCounts>>
    /\ UNCHANGED <<planVars, syncVars, waitVars, idemVars, listVars, raceVars, progress>>

\* the sync window is open and a run is under way; nothing has been logged yet
InitMsg ==
    /\ PlanOff /\ SyncOff /\ WaitOff
    /\ IdemOff /\ WindowOff /\ MsgOff /\ RaceOff /\ ListOff /\ progress = <<>>

NextMsg ==
    \/ \E k \in 1..MaxRunBooks : ContentSendLog(skipLog(k))
    \/ \E k \in 1..MaxRunBooks : ContentSendLog(errorLog(k))
    \/ \E k \in 1..MaxRunBooks : WorkerBroadcastLog(commitErrorLog(k))
    \/ WorkerHandleMessage
    \/ WindowOnMessage

SpecMsg == InitMsg /\ [][NextMsg]_vars

\* how often the message has been added to the log list
timesLogged(m) == Cardinality({k \in 1..Len(logList) : logList[k] = logEntry(m)})

\* C29: once every message has been delivered, each log message the content script or
\* the worker sent for a skipped or failed candidate is in the log list of the sync
\* window exactly once
C29_LoggedExactlyOnce ==
    (toWorker = <<>> /\ toWindow = <<>>) => \A m \in sentLogs : timesLogged(m) = 1

----------------------------------------------------------------------------
(* One candidate of the second pass and the detail panel *)

\* what the loop body does not touch while it clicks and waits
clickKeeps == <<view, bookHighlightCounts, testMode, cachedTestBookLimit, pc, entry,
                notionCounts, useNotionCounts, savedCounts, isFirstSync, testBookLimit,
                booksToProcess, newCounts, processedBooks, script, currentBook, allBooks,
                pcBook>>

\* clickBookContainer(book.container) of the loop body, before the first wait and once
\* more after a wait that returned false: scrollIntoView and the three mouse events;
\* the page's handlers run inside dispatchEvent and leave the panel as t, c, sel.
\* The waitForTitleUpdate call that follows starts with fresh locals.
ClickBookContainer(t, c, sel) ==
    /\ IF wpc = "off" THEN trace = <<>>
       ELSE wpc = "resolved" /\ result = "false" /\ trace = <<"click">>
    /\ trace' = Append(trace, "click")
    /\ panelTitle' = t /\ panelContents' = c /\ selected' = sel
    /\ wpc' = "idle" /\ done' = FALSE /\ result' = "none" /\ resolutions' = <<>>
    /\ initialSignature' = <<>> /\ expectedVariants' = {}
    /\ mutationPending' = FALSE /\ intervalDue' = FALSE /\ now' = 0 /\ changes' = 0
    /\ UNCHANGED <<expectedTitle, observerOn, intervalOn, timerOn>>
    /\ UNCHANGED <<clickKeeps, syncVars, moreVars>>

\* a candidate whose container has not been clicked yet
InitPanel ==
    /\ PlanOff
    /\ SyncOff
    /\ expectedTitle \in {<<>>, TitleAtomicLong}
    /\ panelTitle \in FairPanelTitles
    /\ panelContents \in FairPanelContents
    /\ selected \in BOOLEAN
    /\ initialSignature = <<>> /\ wpc = "off" /\ done = FALSE
    /\ result = "none" /\ observerOn = FALSE /\ intervalOn = FALSE /\ timerOn = FALSE
    /\ mutationPending = FALSE /\ intervalDue = FALSE /\ now = 0
    /\ resolutions = <<>> /\ changes = 0 /\ expectedVariants = {}
    /\ MoreOff

NextPanel ==
    \/ \E t \in FairPanelTitles, c \in FairPanelContents, sel \in BOOLEAN :
          ClickBookContainer(t, c, sel)
    \/ NextWaitFair

SpecPanel == InitPanel /\ [][NextPanel]_vars

\* what the script can see of the live view
liveView == <<panelTitle, panelContents, selected>>

\* a step of waitForTitleUpdate: the call itself or one of its three callbacks
waitStep ==
    /\ wpc \in {"idle", "pending"}
    /\ \/ finishVars' # finishVars
       \/ snapVars' # snapVars
       \/ mutationPending /\ ~mutationPending'
       \/ intervalDue /\ ~intervalDue'

\* a step of the loop body outside waitForTitleUpdate
bodyStep == trace' # trace

\* C31: no step of waitForTitleUpdate, from its call to its resolution, changes the
\* selection mark, the panel title or the panel content; of the steps the script takes
\* for a candidate, only clickBookContainer changes any of them
C31_WaitOnlyObserves ==
    [][/\ waitStep => UNCHANGED liveView
       /\ (waitStep \/ bodyStep) /\ liveView' # liveView
             => trace' = Append(trace, "click")]_vars

\* the second wait of a candidate has resolved after the page changed the panel
C31_Witness ==
    /\ trace = <<"click", "click">> /\ wpc = "resolved" /\ result = "true"
    /\ changes > 0 /\ done

----------------------------------------------------------------------------
(* Claims about the two entry points *)

\* the decision entry point e takes for one container
shouldProcessAs(e, title, count, queued) ==
    IF e = "auto" THEN shouldProcessAuto(title, count, queued)
    ELSE shouldProcessProgress(title, count, queued)

\* the first pass of entry point e over the same list view and the same saved counts
RECURSIVE FirstPassAs(_, _, _)
FirstPassAs(e, i, q) ==
    IF i > Len(view) THEN q
    ELSE FirstPassAs(e, i + 1,
                     IF shouldProcessAs(e, view[i].title, view[i].count, Len(q))
                     THEN Append(q, Candidate(i)) ELSE q)

otherEntry == IF entry = "auto" THEN "progress" ELSE "auto"

\* C32: with a non-empty local cache, no Notion counts and limited mode off, the queue
\* an entry point has built is the queue the other entry point builds from the same
\* list view and cache
C32_SameQueueFromBothEntries ==
    (Planned /\ ~useNotionCounts /\ DOMAIN savedCounts # {} /\ ~testModeActive)
        => booksToProcess = ApplyTestLimit(FirstPassAs(otherEntry, 1, <<>>))

----------------------------------------------------------------------------
(* Claims about what the worker leaves in the database *)

\* the quote and callout blocks stored on page p
highlightBlocks(p) == SelectSeq(pages[p].blocks, IsHighlightBlock)

\* C33: whenever the worker is between two books or has returned, no count property of
\* a page holds more than the number of highlight blocks stored on that page
C33_CountAtMostBlocks ==
    pcSync \in {"idle", "book", "done"} =>
        \A p \in 1..Len(pages) : \A q \in DOMAIN pages[p].props :
            pages[p].props[q] <= Len(highlightBlocks(p))

----------------------------------------------------------------------------
(* Claims about the statistics the worker returns *)

MaxLongBook == 101

\* the k-th highlight of a long book, with its location
LongHighlight(k) == [text |-> <<256 + k>>, location |-> <<55>>]

\* one book of up to MaxLongBook highlights, more than fit into one append request,
\* or one of the short books
LongBooks ==
    {<<[title |-> TitleA, highlights |-> [k \in 1..n |-> LongHighlight(k)]]>> :
        n \in 0..MaxLongBook}
    \cup {<<b>> : b \in BookKinds}

\* the database is empty or holds the book's page without any highlight
InitLong ==
    /\ PlanOff
    /\ WaitOff
    /\ dbProperties = {PropHighlightCount}
    /\ pages \in {<<>>, <<[title |-> TitleA, props |-> createProps(0), blocks |-> <<>>]>>}
    /\ books \in LongBooks
    /\ pcSync = "idle"
    /\ bookIdx = 0 /\ page = 0 /\ existingHighlights = <<>> /\ newHighlightsList = <<>>
    /\ children = <<>> /\ batchI = 0 /\ callSite = "none" /\ inFlight = 0
    /\ newBooks = 0 /\ newHighlights = 0 /\ updatedBooks = 0 /\ outcome = "none"
    /\ netLog = <<>> /\ runNo = 0 /\ failures = 0 /\ pagesCreated = 0
    /\ blocksAppended = 0 /\ runFailed = FALSE /\ prevClean = FALSE
    /\ begun = <<>> /\ behind = FALSE
    /\ MoreOff

SpecLong == InitLong /\ [][NextSync]_vars

\* C34: when syncBooksToNotion returns, newHighlights is the number of blocks the run
\* appended to pages and newBooks the number of pages it created
C34_StatisticsMatchStore ==
    pcSync = "done" =>
        /\ returnValue.newHighlights = blocksAppended
        /\ returnValue.newBooks = pagesCreated

----------------------------------------------------------------------------
(* The sync window: several startSync calls side by side *)

\* a startSync call that has just been made and awaits the settings
newRun == [at |-> "settings", tab |-> NoTab, left |-> 0]

raceKeeps == <<notionConfigured, step, finishLeft, tabOpen, starts, reads, windowCounts>>

\* the click listener of syncBtn: if (isSyncing) return; startSync().
\* A disabled button does not deliver the click
ClickSync ==
    /\ ~syncBtnDisabled /\ ~isSyncing
    /\ Len(syncRuns) < MaxStarts
    /\ syncRuns' = Append(syncRuns, newRun)
    /\ UNCHANGED <<openTabs, syncBtnDisabled, isSyncing, kindleTabId, logList, raceKeeps>>
    /\ UNCHANGED <<planVars, syncVars, waitVars, idemVars, listVars, msgVars, progress>>

\* call r of startSync after chrome.storage.sync.get(['notionToken', 'databaseId']):
\* return with an error entry, or set the flag, disable the button, clear the log
ReadSettings(r) ==
    /\ syncRuns[r].at = "settings"
    /\ IF ~notionConfigured
       THEN /\ logList' = addLog(logList, "error")
            /\ syncRuns' = [syncRuns EXCEPT ![r].at = "returned"]
            /\ UNCHANGED <<isSyncing, syncBtnDisabled>>
       ELSE /\ isSyncing' = TRUE
            /\ syncBtnDisabled' = TRUE
            /\ logList' = addLog(<<>>, "info")
            /\ syncRuns' = [syncRuns EXCEPT ![r].at = "tab"]
    /\ UNCHANGED <<openTabs, kindleTabId, raceKeeps>>
    /\ UNCHANGED <<planVars, syncVars, waitVars, idemVars, listVars, msgVars, progress>>

\* call r after chrome.tabs.create: kindleTabId = tab.id (the tab of call r has id r),
\* or the rejection goes to the catch and the finally
CreateTabOf(r, ok) ==
    /\ syncRuns[r].at = "tab"
    /\ IF ok
       THEN /\ kindleTabId' = r
            /\ openTabs' = openTabs \cup {r}
            /\ logList' = addLogs(logList, <<"success", "info">>)
            /\ syncRuns' = [syncRuns EXCEPT ![r] = [at |-> "body", tab |-> r, left |-> 0]]
       ELSE /\ logList' = addLog(logList, "error")
            /\ syncRuns' = [syncRuns EXCEPT ![r] = [at |-> "finish", tab |-> NoTab, left |-> 1]]
            /\ UNCHANGED <<kindleTabId, openTabs>>
    /\ UNCHANGED <<syncBtnDisabled, isSyncing, raceKeeps>>
    /\ UNCHANGED <<planVars, syncVars, waitVars, idemVars, listVars, msgVars, progress>>

\* call r leaves what lies between the tab's creation and finishSync (lines 72-226):
\* through one of the `await finishSync(); return;` paths, which the finally follows
\* with a second finishSync, or through the end of the try block or its catch
BodyEnds(r, early) ==
    /\ syncRuns[r].at = "body"
    /\ logList' = addLog(logList, IF early THEN "error" ELSE "success")
    /\ syncRuns' = [syncRuns EXCEPT ![r].at = "finish", ![r].left = IF early THEN 2 ELSE 1]
    /\ UNCHANGED <<openTabs, syncBtnDisabled, isSyncing, kindleTabId, raceKeeps>>
    /\ UNCHANGED <<planVars, syncVars, waitVars, idemVars, listVars, msgVars, progress>>

\* a finishSync of call r up to its await: isSyncing = false, the button is enabled
FinishBeginOf(r) ==
    /\ syncRuns[r].at = "finish"
    /\ isSyncing' = FALSE
    /\ syncBtnDisabled' = FALSE
    /\ syncRuns' = [syncRuns EXCEPT ![r].at = "finishing"]
    /\ UNCHANGED <<openTabs, kindleTabId, logList, raceKeeps>>
    /\ UNCHANGED <<planVars, syncVars, waitVars, idemVars, listVars, msgVars, progress>>

\* a finishSync of call r after chrome.storage.sync.get(['autoCloseWindow']): the tab
\* kindleTabId names is removed if the setting says so and kindleTabId becomes null;
\* a rejected read throws into the catch (call before a return) or out of startSync
FinishEndOf(r, ok, autoClose) ==
    /\ syncRuns[r].at = "finishing"
    /\ kindleTabId' = IF ok THEN NoTab ELSE kindleTabId
    /\ openTabs' = IF ok /\ autoClose THEN openTabs \ {kindleTabId} ELSE openTabs
    /\ logList' = IF ~ok /\ syncRuns[r].left = 2 THEN addLog(logList, "error") ELSE logList
    /\ syncRuns' = [syncRuns EXCEPT ![r].at = IF syncRuns[r].left = 1 THEN "returned"
                                              ELSE "finish",
                                    ![r].left = @ - 1]
    /\ UNCHANGED <<syncBtnDisabled, isSyncing, raceKeeps>>
    /\ UNCHANGED <<planVars, syncVars, waitVars, idemVars, listVars, msgVars, progress>>

\* the window has been opened: the script has called startSync(), which awaits the
\* settings; whether the page's markup disables the button is not known
InitRace ==
    /\ PlanOff /\ SyncOff /\ WaitOff /\ IdemOff /\ MsgOff /\ ListOff /\ progress = <<>>
    /\ notionConfigured \in BOOLEAN /\ isSyncing = FALSE /\ kindleTabId = NoTab
    /\ step = "off" /\ finishLeft = 0 /\ logList = <<>> /\ tabOpen = FALSE
    /\ starts = 0 /\ reads = 0 /\ windowCounts = <<>>
    /\ syncRuns = <<newRun>>
    /\ openTabs = {}
    /\ syncBtnDisabled \in BOOLEAN

NextRace ==
    \/ ClickSync
    \/ \E r \in 1..Len(syncRuns) : ReadSettings(r)
    \/ \E r \in 1..Len(syncRuns), ok \in BOOLEAN : CreateTabOf(r, ok)
    \/ \E r \in 1..Len(syncRuns), early \in BOOLEAN : BodyEnds(r, early)
    \/ \E r \in 1..Len(syncRuns) : FinishBeginOf(r)
    \/ \E r \in 1..Len(syncRuns), ok \in BOOLEAN, autoClose \in BOOLEAN :
          FinishEndOf(r, ok, autoClose)

SpecRace == InitRace /\ [][NextRace]_vars

\* the startSync calls that have not returned
runsInFlight == {r \in 1..Len(syncRuns) : syncRuns[r].at # "returned"}

\* C35: at most one call of startSync is under way at any time
C35_OneRunInFlight == Cardinality(runsInFlight) <= 1

\* C36: while a call of startSync is between the creation of its tab and its first
\* finishSync, isSyncing is true and its tab exists
C36_RunKeepsFlagAndTab ==
    \A r \in 1..Len(syncRuns) :
        syncRuns[r].at = "body" => (isSyncing /\ syncRuns[r].tab \in openTabs)

----------------------------------------------------------------------------
(* Claims about repeated runs *)

\* the highlights of book b differ pairwise in their first 50 characters and none is
\* contained in another
distinctLive(b) ==
    \A i, j \in 1..Len(b.highlights) :
        i # j =>
            /\ Substring0(b.highlights[i].text, prefixLen)
                  # Substring0(b.highlights[j].text, prefixLen)
            /\ ~Includes(b.highlights[i].text, b.highlights[j].text)

\* the different texts among the highlight blocks of page p
highlightTexts(p) == {pages[p].blocks[i].text : i \in {k \in 1..Len(pages[p].blocks) :
                                                        IsHighlightBlock(pages[p].blocks[k])}}

\* C37: when the highlights of every book of the request differ pairwise in their first
\* 50 characters and none is contained in another, no page holds two highlight blocks
\* with the same text, at any moment of any run, whatever failed in the runs before
C37_NoHighlightTwice ==
    \/ \A p \in 1..Len(pages) : Cardinality(highlightTexts(p)) = Len(highlightBlocks(p))
    \/ ~ \A k \in 1..Len(books) : distinctLive(books[k])

\* the first run stored the first batch of a long book and failed on the second; the
\* second run has found the page and appended the one highlight that was missing
C37_Witness ==
    /\ runNo = 2 /\ pcSync = "done" /\ ~prevClean /\ ~runFailed
    /\ Len(pages) = 1 /\ Len(highlightBlocks(1)) = MaxLongBook
    /\ blocksAppended = MaxLongBook - batchSize /\ newBooks = 0

----------------------------------------------------------------------------
(* The Notion client: the two paginated reads, request by request *)

MaxListBlocks == 3
MaxListPages == 3
MaxPageSize == 2

\* a request that starts after position c of list: at most pageSize results, has_more
\* when the list goes on, next_cursor the position the next request starts after (0 = null)
listResponse(list, c) ==
    [results |-> SubSeq(list, c + 1, Min(c + pageSize, Len(list))),
     has_more |-> c + pageSize < Len(list),
     next_cursor |-> IF c + pageSize < Len(list) THEN c + pageSize ELSE 0]

\* the texts of the quote and callout blocks of results, in order
RECURSIVE pushHighlights(_, _)
pushHighlights(results, acc) ==
    IF results = <<>> THEN acc
    ELSE pushHighlights(Tail(results),
                        IF Head(results).type \in {"quote", "callout"}
                        THEN Append(acc, Head(results).text) ELSE acc)

\* books[title] = highlightCount for the pages of results that have a title
RECURSIVE putCounts(_, _)
putCounts(results, acc) ==
    IF results = <<>> THEN acc
    ELSE putCounts(Tail(results),
                   IF Len(Head(results).title) > 0
                   THEN Merge(acc, [t \in {Head(results).title} |->
                                       readHighlightCount(Head(results))])
                   ELSE acc)

listKeeps == <<dbProperties, pages, books, pcSync, bookIdx, existingHighlights,
               newHighlightsList, children, batchI, callSite, inFlight, newBooks,
               newHighlights, updatedBooks, outcome, netLog, runNo, failures,
               pagesCreated, blocksAppended, runFailed, prevClean, begun, behind>>

\* getExistingHighlights(pageId) is called: highlights = [], cursor = undefined
CallGetExistingHighlights(p) ==
    /\ pcList = "idle"
    /\ listFn' = "getExistingHighlights"
    /\ page' = p
    /\ highlights' = <<>> /\ cursor' = 0
    /\ pcList' = "request"
    /\ UNCHANGED <<hasMore, titleCounts, visited, pageSize, listKeeps>>
    /\ UNCHANGED <<planVars, waitVars, idemVars, windowVars, msgVars, raceVars, progress>>

\* faulty variant: the loop does not follow next_cursor
BlocksResponseFirstOnly(ok) ==
    /\ pcList = "request" /\ listFn = "getExistingHighlights"
    /\ visited' = Append(visited, cursor)
    /\ IF ok
       THEN /\ highlights' = pushHighlights(listResponse(pages[page].blocks, cursor).results,
                                            highlights)
            /\ cursor' = 0
            /\ pcList' = "returned"
       ELSE /\ pcList' = "thrown"
            /\ UNCHANGED <<highlights, cursor>>
    /\ UNCHANGED <<listFn, hasMore, titleCounts, pageSize, syncVars>>
    /\ UNCHANGED <<planVars, waitVars, idemVars, windowVars, msgVars, raceVars, progress>>

\* one round of the do-while loop of getExistingHighlights: the request from cursor on,
\* the texts of its quote and callout blocks, the next cursor; a failed request throws
BlocksResponse(ok) ==
    /\ pcList = "request" /\ listFn = "getExistingHighlights"
    /\ visited' = Append(visited, cursor)
    /\ IF ok
       THEN /\ highlights' = pushHighlights(listResponse(pages[page].blocks, cursor).results,
                                            highlights)
            /\ cursor' = IF listResponse(pages[page].blocks, cursor).has_more
                         THEN listResponse(pages[page].blocks, cursor).next_cursor ELSE 0
            /\ pcList' = IF cursor' # 0 THEN "request" ELSE "returned"
       ELSE /\ pcList' = "thrown"
            /\ UNCHANGED <<highlights, cursor>>
    /\ UNCHANGED <<listFn, hasMore, titleCounts, pageSize, syncVars>>
    /\ UNCHANGED <<planVars, waitVars, idemVars, windowVars, msgVars, raceVars, progress>>

\* getAllBooksWithHighlightCount(databaseId) is called: books = {}, hasMore = true,
\* startCursor = undefined
CallGetAllBooks ==
    /\ pcList = "idle"
    /\ listFn' = "getAllBooksWithHighlightCount"
    /\ titleCounts' = <<>> /\ hasMore' = TRUE /\ cursor' = 0
    /\ pcList' = "request"
    /\ UNCHANGED <<highlights, visited, pageSize, syncVars>>
    /\ UNCHANGED <<planVars, waitVars, idemVars, windowVars, msgVars, raceVars, progress>>

\* one round of the while loop of getAllBooksWithHighlightCount: the query from
\* startCursor on, the counts of its pages, hasMore and startCursor from the response
QueryResponse(ok) ==
    /\ pcList = "request" /\ listFn = "getAllBooksWithHighlightCount"
    /\ hasMore
    /\ visited' = Append(visited, cursor)
    /\ IF ok
       THEN /\ titleCounts' = putCounts(listResponse(pages, cursor).results, titleCounts)
            /\ hasMore' = listResponse(pages, cursor).has_more
            /\ cursor' = listResponse(pages, cursor).next_cursor
            /\ pcList' = IF hasMore' THEN "request" ELSE "returned"
       ELSE /\ pcList' = "thrown"
            /\ UNCHANGED <<titleCounts, hasMore, cursor>>
    /\ UNCHANGED <<listFn, highlights, pageSize, syncVars>>
    /\ UNCHANGED <<planVars, waitVars, idemVars, windowVars, msgVars, raceVars, progress>>

\* a paragraph, a quote and a callout
ListBlocks ==
    {[type |-> "paragraph", text |-> TextR], toBlock(HlS),
     [type |-> "callout", text |-> TextR]}

\* a page per title, one without a title
ListPages ==
    {[title |-> TitleA, props |-> createProps(1), blocks |-> <<>>],
     [title |-> TitleB, props |-> createProps(2), blocks |-> <<>>],
     [title |-> <<>>, props |-> createProps(0), blocks |-> <<>>]}

\* a database of one page with some blocks, or of several pages; Notion answers with
\* at most pageSize results per request
InitList ==
    /\ PlanOff /\ WaitOff /\ IdemOff /\ WindowOff /\ MsgOff /\ RaceOff /\ progress = <<>>
    /\ dbProperties = {PropHighlightCount}
    /\ pages \in {<<[title |-> TitleA, props |-> createProps(0), blocks |-> b]>> :
                     b \in SeqsUpTo(ListBlocks, MaxListBlocks)}
                 \cup SeqsUpTo(ListPages, MaxListPages)
    /\ books = <<>> /\ pcSync = "off"
    /\ bookIdx = 0 /\ page = 0 /\ existingHighlights = <<>> /\ newHighlightsList = <<>>
    /\ children = <<>> /\ batchI = 0 /\ callSite = "none" /\ inFlight = 0
    /\ newBooks = 0 /\ newHighlights = 0 /\ updatedBooks = 0 /\ outcome = "none"
    /\ netLog = <<>> /\ runNo = 0 /\ failures = 0 /\ pagesCreated = 0
    /\ blocksAppended = 0 /\ runFailed = FALSE /\ prevClean = FALSE
    /\ begun = <<>> /\ behind = FALSE
    /\ listFn = "none" /\ pcList = "idle" /\ cursor = 0 /\ hasMore = FALSE
    /\ highlights = <<>> /\ titleCounts = <<>> /\ visited = <<>>
    /\ pageSize \in 1..MaxPageSize

\* the requests a read makes once it has been called
ListStep ==
    \/ \E ok \in BOOLEAN : BlocksResponse(ok)
    \/ \E ok \in BOOLEAN : QueryResponse(ok)

NextList ==
    \/ \E p \in 1..Len(pages) : CallGetExistingHighlights(p)
    \/ CallGetAllBooks
    \/ ListStep

SpecList == InitList /\ [][NextList]_vars

\* a request that was sent is answered or fails
SpecListFair == InitList /\ [][NextList]_vars /\ WF_vars(ListStep)

\* the start positions of the requests that visit a list of n results once each
everyResultPage(n) ==
    [k \in 1..(IF n = 0 THEN 1 ELSE (n + pageSize - 1) \div pageSize) |-> (k - 1) * pageSize]

\* C38: getExistingHighlights returns the texts of all quote and callout blocks of the
\* page in order, after one request per result page; getAllBooksWithHighlightCount
\* returns the counts of all pages after one query per result page; each read that was
\* called returns or throws
C38_PaginatedReadsComplete ==
    /\ [](pcList = "returned" /\ listFn = "getExistingHighlights" =>
            /\ highlights = [k \in 1..Len(highlightBlocks(page)) |->
                                highlightBlocks(page)[k].text]
            /\ visited = everyResultPage(Len(pages[page].blocks)))
    /\ [](pcList = "returned" /\ listFn = "getAllBooksWithHighlightCount" =>
            /\ titleCounts = getAllBooksWithHighlightCount(1, <<>>)
            /\ visited = everyResultPage(Len(pages)))
    /\ (pcList = "request" ~> pcList \in {"returned", "thrown"})

\* three blocks came in two responses, the paragraph among them was left out
C38_Witness ==
    /\ pcList = "returned" /\ listFn = "getExistingHighlights"
    /\ Len(visited) = 2 /\ Len(pages[page].blocks) = 3 /\ Len(highlights) = 2

----------------------------------------------------------------------------
(* Claims about titles that normalize to nothing *)

\* the fingerprint signal as isReady tests it at an observation
fingerprintSignal ==
    /\ currentSignature # <<>>
    /\ currentSignature # initialSignature'
    /\ selected

\* C39: an observation of a call with a non-empty expected title that finds a panel
\* title whose normalized form is empty, and no fingerprint signal, does not resolve
\* the call true
C39_EmptyNormalizedTitleNoSignal ==
    [][(/\ ObservationStep
        /\ Len(expectedTitle) > 0
        /\ Len(normalizeTitle(panelTitle)) = 0
        /\ ~fingerprintSignal)
          => result' # "true"]_vars

============================================================================
